---------------------------- MODULE Spec2Model ----------------------------
(***************************************************************************)
(* Token lifecycle of the hydrate package (src/hydrate.go): configuration  *)
(* through NewToken and its options, first issuance, regeneration,         *)
(* refresh, parsing, claim extraction and the validity check.              *)
(*                                                                         *)
(* Time is the Unix clock in whole seconds (time.Now().Unix()).  One call  *)
(* of an operation reads the clock at one instant; the clock advances      *)
(* between calls (action Tick).                                            *)
(*                                                                         *)
(* A signed token is the record [alg, claims, key]: the header algorithm,  *)
(* the JSON payload and the key the signature was computed with.  Go       *)
(* values are tagged with their dynamic type (int64, float64, string) and  *)
(* JSON values with their JSON type (number, string), so that encoding and *)
(* decoding a claim map is not the identity: an int64 written into a       *)
(* token comes back from jwt.Parse as a float64.                           *)
(*                                                                         *)
(* jwt.Parse and SignedString are github.com/golang-jwt/jwt                *)
(* v3.2.2+incompatible, the version go.mod pins.                           *)
(***************************************************************************)
EXTENDS Integers, Sequences, FiniteSets, TLC

VARIABLES
    now,    \* the Unix clock, in seconds
    cfg,    \* the two *TokenConfig slots; built = FALSE is the nil pointer
    res     \* what the last call did and returned

vars == <<now, cfg, res>>

---------------------------------------------------------------------------
(* Bounds *)

\* the clock runs from 1 to MaxTime
MaxTime == 3

---------------------------------------------------------------------------
(* Go and JSON values *)

I(n) == [t |-> "int64", v |-> n]
F(n) == [t |-> "float64", v |-> n]
S(s) == [t |-> "string", v |-> s]

\* encoding/json.Marshal of one claim value
Encode(gv) ==
    IF gv.t = "string" THEN [t |-> "string", v |-> gv.v]
                       ELSE [t |-> "number", v |-> gv.v]

\* encoding/json.Unmarshal into interface{}: every number is a float64
Decode(jv) ==
    IF jv.t = "string" THEN S(jv.v) ELSE F(jv.v)

EncodeClaims(m) == [k \in DOMAIN m |-> Encode(m[k])]
DecodeClaims(p) == [k \in DOMAIN p |-> Decode(p[k])]

\* a map with no entry (a nil or empty Go map)
EmptyClaims == [k \in {} |-> I(0)]

---------------------------------------------------------------------------
(* Errors (the package's error variables) *)

NoErr == "nil"
Panic == "panic"
ErrInvalidSecretKey == "ErrInvalidSecretKey"
ErrTokenInvalid == "ErrTokenInvalid"
ErrTokenExpired == "ErrTokenExpired"
ErrClaimsInvalid == "ErrClaimsInvalid"
ErrSigningMethodNil == "ErrSigningMethodNil"
ErrStandardClaimMissing == "ErrStandardClaimMissing"
ErrCustomClaimsMissing == "ErrCustomClaimsMissing"
ErrTokenNotGenerated == "ErrTokenNotGenerated"
ErrSigningToken == "ErrSigningToken"
ErrInvalidTokenConfig == "ErrInvalidTokenConfig"
ErrTokenConfigNil == "ErrTokenConfigNil"

---------------------------------------------------------------------------
(* The jwt library, as hydrate.go calls it *)

NoToken == [alg |-> "", claims |-> EmptyClaims, key |-> ""]

\* the signing methods whose Sign and Verify take a []byte key
HMACMethods == {"HS256", "HS512"}

\* jwt.NewWithClaims(method, claims).SignedString(key)
SignedString(method, claims, key) ==
    IF method \in HMACMethods
    THEN [err |-> FALSE,
          token |-> [alg |-> method, claims |-> EncodeClaims(claims), key |-> key]]
    ELSE [err |-> TRUE, token |-> NoToken]

\* VerifyExpiresAt with the strict comparison now < exp
VerifyExpiresAtStrict(m, clock) ==
    IF "exp" \notin DOMAIN m THEN TRUE
    ELSE IF m["exp"].t # "float64" THEN FALSE
    ELSE m["exp"].v = 0 \/ clock < m["exp"].v

\* MapClaims.VerifyExpiresAt(now, false): a missing exp passes, a numeric exp
\* passes when it is 0 or now <= exp, an exp of another type fails
VerifyExpiresAt(m, clock) ==
    IF "exp" \notin DOMAIN m THEN TRUE
    ELSE IF m["exp"].t # "float64" THEN FALSE
    ELSE m["exp"].v = 0 \/ clock <= m["exp"].v

\* MapClaims.VerifyIssuedAt(now, false): only a numeric iat is compared
VerifyIssuedAt(m, clock) ==
    IF "iat" \notin DOMAIN m THEN TRUE
    ELSE IF m["iat"].t # "float64" THEN TRUE
    ELSE m["iat"].v = 0 \/ clock >= m["iat"].v

\* MapClaims.VerifyNotBefore(now, false): only a numeric nbf is compared
VerifyNotBefore(m, clock) ==
    IF "nbf" \notin DOMAIN m THEN TRUE
    ELSE IF m["nbf"].t # "float64" THEN TRUE
    ELSE m["nbf"].v = 0 \/ clock >= m["nbf"].v

\* MapClaims.Valid()
ClaimsValid(m, clock) ==
    /\ VerifyExpiresAt(m, clock)
    /\ VerifyIssuedAt(m, clock)
    /\ VerifyNotBefore(m, clock)

\* Method.Verify of the token's own algorithm with the key of the key function
SignatureValid(tok, key) ==
    tok.alg \in HMACMethods /\ tok.key = key

\* jwt.Parse(tokenString, keyFunc) with a key function that returns key
jwtParse(tok, key, clock) ==
    LET claims == DecodeClaims(tok.claims)
    IN  [err |-> ~(ClaimsValid(claims, clock) /\ SignatureValid(tok, key)),
         claims |-> claims]

---------------------------------------------------------------------------
(* TokenConfig and the options of NewToken *)

CfgIds == {"access", "refresh"}

\* the zero jwt.StandardClaims
ZeroStandardClaims ==
    [ExpiresAt |-> 0, Issuer |-> "", Audience |-> "", IssuedAt |-> 0,
     NotBefore |-> 0, Subject |-> "", Id |-> ""]

NoKey == "nil"
NoMethod == "nil"

\* the nil (or empty) []byte a caller may pass to SecretKey
NilBytes == ""

\* m.NewSecret(key): an error for the nil key, as the comment of SecretKey has
\* it, and otherwise the secret that holds key
NewSecret(key) == [err |-> key = NilBytes, secret |-> key]

\* a nil *TokenConfig; a built one has built = TRUE.  token is defined when
\* issued (the token pointer is not nil).  expiration is in seconds.
\* Two fields are history, not fields of the struct: configuredAt is the clock
\* WithStandardClaims read (0: never applied) and stampedAt is the clock value
\* the stored token's exp was computed from (configuredAt for the first token,
\* the time of the call for a regenerated one).
NilConfig ==
    [built |-> FALSE, secretKey |-> NoKey, signingMethod |-> NoMethod,
     standardClaims |-> ZeroStandardClaims, customClaims |-> EmptyClaims,
     issued |-> FALSE, token |-> NoToken, expiration |-> 0, configuredAt |-> 0,
     stampedAt |-> 0]

\* the options, as the values that the four constructors return
SecretKey(key) == [kind |-> "SecretKey", key |-> key]
WithSigningMethod(method) == [kind |-> "WithSigningMethod", method |-> method]
WithStandardClaims(claims) == [kind |-> "WithStandardClaims", std |-> claims]
WithCustomClaims(claims) == [kind |-> "WithCustomClaims", custom |-> claims]

\* the function SecretKey(key) returns, applied to t
applySecretKey(key, t) ==
    LET s == NewSecret(key)
    IN  IF s.err THEN [err |-> ErrInvalidSecretKey, cfg |-> t]
        ELSE [err |-> NoErr, cfg |-> [t EXCEPT !.secretKey = s.secret]]

\* the function WithSigningMethod(method) returns, applied to t
applyWithSigningMethod(method, t) ==
    IF method = NoMethod
    THEN [err |-> ErrSigningMethodNil, cfg |-> t]
    ELSE [err |-> NoErr, cfg |-> [t EXCEPT !.signingMethod = method]]

\* applyWithStandardClaims with the expiration kept absolute: the clock is not
\* subtracted
applyWithStandardClaimsAbsolute(claims, t, clock) ==
    IF claims.ExpiresAt = 0
    THEN [err |-> ErrStandardClaimMissing, cfg |-> t]
    ELSE [err |-> NoErr,
          cfg |-> [t EXCEPT !.standardClaims = claims,
                            !.expiration = claims.ExpiresAt,
                            !.configuredAt = clock,
                            !.stampedAt = clock]]

\* the function WithStandardClaims(claims) returns, applied to t
applyWithStandardClaims(claims, t, clock) ==
    IF claims.ExpiresAt = 0
    THEN [err |-> ErrStandardClaimMissing, cfg |-> t]
    ELSE [err |-> NoErr,
          cfg |-> [t EXCEPT !.standardClaims = claims,
                            !.expiration = claims.ExpiresAt - clock,
                            !.configuredAt = clock,
                            !.stampedAt = clock]]

\* the function WithCustomClaims(claims) returns, applied to t
applyWithCustomClaims(claims, t) ==
    IF DOMAIN claims = {}
    THEN [err |-> ErrCustomClaimsMissing, cfg |-> t]
    ELSE [err |-> NoErr, cfg |-> [t EXCEPT !.customClaims = claims]]

\* one option function applied to the configuration under construction
ApplyOption(o, t, clock) ==
    CASE o.kind = "SecretKey" -> applySecretKey(o.key, t)
      [] o.kind = "WithSigningMethod" -> applyWithSigningMethod(o.method, t)
      [] o.kind = "WithStandardClaims" -> applyWithStandardClaims(o.std, t, clock)
      [] o.kind = "WithCustomClaims" -> applyWithCustomClaims(o.custom, t)

\* the option loop with the error tested after the loop: the error of the last
\* option decides
RECURSIVE ApplyOptionsLastDecides(_, _, _)
ApplyOptionsLastDecides(options, t, clock) ==
    IF options = <<>> THEN [err |-> NoErr, cfg |-> t]
    ELSE LET r == ApplyOption(Head(options), t, clock)
         IN  IF Tail(options) = <<>>
             THEN IF r.err # NoErr THEN [err |-> ErrInvalidTokenConfig, cfg |-> NilConfig]
                  ELSE r
             ELSE ApplyOptionsLastDecides(Tail(options), r.cfg, clock)

\* the option loop of NewToken: the first failing option ends it
RECURSIVE ApplyOptions(_, _, _)
ApplyOptions(options, t, clock) ==
    IF options = <<>> THEN [err |-> NoErr, cfg |-> t]
    ELSE LET r == ApplyOption(Head(options), t, clock)
         IN  IF r.err # NoErr THEN [err |-> ErrInvalidTokenConfig, cfg |-> NilConfig]
             ELSE ApplyOptions(Tail(options), r.cfg, clock)

\* NewToken without the test for a missing secret key
NewTokenNoKeyCheck(options, clock) ==
    LET start == [NilConfig EXCEPT !.built = TRUE, !.signingMethod = "HS256"]
        r == ApplyOptions(options, start, clock)
    IN  IF r.err # NoErr THEN [err |-> ErrInvalidTokenConfig, cfg |-> NilConfig]
        ELSE [err |-> NoErr, cfg |-> r.cfg]

\* NewToken(options...): the configuration returned (NilConfig for nil) and the error
NewToken(options, clock) ==
    LET start == [NilConfig EXCEPT !.built = TRUE, !.signingMethod = "HS256"]
        r == ApplyOptions(options, start, clock)
    IN  IF r.err # NoErr THEN [err |-> ErrInvalidTokenConfig, cfg |-> NilConfig]
        ELSE IF r.cfg.secretKey = NoKey
             THEN [err |-> ErrInvalidSecretKey, cfg |-> NilConfig]
             ELSE [err |-> NoErr, cfg |-> r.cfg]

---------------------------------------------------------------------------
(* Claim composition *)

StdKeys == {"exp", "iss", "aud", "iat", "nbf", "sub", "jti"}

claimMapping(sc) ==
    [k \in StdKeys |->
        CASE k = "exp" -> I(sc.ExpiresAt)
          [] k = "iss" -> S(sc.Issuer)
          [] k = "aud" -> S(sc.Audience)
          [] k = "iat" -> I(sc.IssuedAt)
          [] k = "nbf" -> I(sc.NotBefore)
          [] k = "sub" -> S(sc.Subject)
          [] k = "jti" -> S(sc.Id)]

\* copyStandardClaims without the tests for the zero value: every field is
\* written
copyStandardClaimsAll(claims, standardClaims) ==
    LET cm == claimMapping(standardClaims)
    IN  [k \in DOMAIN claims \cup StdKeys |-> IF k \in StdKeys THEN cm[k] ELSE claims[k]]

\* copyStandardClaims that leaves the expiration out
copyStandardClaimsNoExp(claims, standardClaims) ==
    LET cm == claimMapping(standardClaims)
        set == {k \in StdKeys \ {"exp"} :
                   \/ cm[k].t = "int64" /\ cm[k].v # 0
                   \/ cm[k].t = "string" /\ cm[k].v # ""}
    IN  [k \in DOMAIN claims \cup set |-> IF k \in set THEN cm[k] ELSE claims[k]]

\* a field is copied when it is a non-zero int64 or a non-empty string
copyStandardClaims(claims, standardClaims) ==
    LET cm == claimMapping(standardClaims)
        set == {k \in StdKeys :
                   \/ cm[k].t = "int64" /\ cm[k].v # 0
                   \/ cm[k].t = "string" /\ cm[k].v # ""}
    IN  [k \in DOMAIN claims \cup set |-> IF k \in set THEN cm[k] ELSE claims[k]]

copyCustomClaims(claims, customClaims) ==
    [k \in DOMAIN claims \cup DOMAIN customClaims |->
        IF k \in DOMAIN customClaims THEN customClaims[k] ELSE claims[k]]

\* copyClaims with the two copies in the other order: custom claims over the
\* standard ones
copyClaimsCustomLast(claims, standardClaims, customClaims) ==
    copyCustomClaims(copyStandardClaims(claims, standardClaims), customClaims)

\* custom claims first, standard claims over them
copyClaims(claims, standardClaims, customClaims) ==
    copyStandardClaims(copyCustomClaims(claims, customClaims), standardClaims)

---------------------------------------------------------------------------
(* The operations of a TokenConfig, as functions of the configuration and *)
(* the clock                                                              *)

\* ParseToken with the claims left unvalidated: only the signature is checked
ParseTokenUnvalidated(t, clock) ==
    IF ~t.issued THEN [err |-> Panic, claims |-> EmptyClaims]
    ELSE IF ~SignatureValid(t.token, t.secretKey)
         THEN [err |-> ErrTokenInvalid, claims |-> EmptyClaims]
         ELSE [err |-> NoErr, claims |-> DecodeClaims(t.token.claims)]

\* ParseToken that tells an expired token from the other failures
ParseTokenReportsExpiry(t, clock) ==
    IF ~t.issued THEN [err |-> Panic, claims |-> EmptyClaims]
    ELSE LET p == jwtParse(t.token, t.secretKey, clock)
         IN  IF p.err
             THEN IF ~VerifyExpiresAt(p.claims, clock)
                  THEN [err |-> ErrTokenExpired, claims |-> EmptyClaims]
                  ELSE [err |-> ErrTokenInvalid, claims |-> EmptyClaims]
             ELSE [err |-> NoErr, claims |-> p.claims]

\* ParseToken: dereferencing a nil token pointer aborts
ParseToken(t, clock) ==
    IF ~t.issued THEN [err |-> Panic, claims |-> EmptyClaims]
    ELSE LET p == jwtParse(t.token, t.secretKey, clock)
         IN  IF p.err THEN [err |-> ErrTokenInvalid, claims |-> EmptyClaims]
             ELSE [err |-> NoErr, claims |-> p.claims]

\* updateExpiration that leaves exp as it is
updateExpirationStale(t, claims, clock) == claims

\* updateExpiration that takes the duration off the current time
updateExpirationSubtracts(t, claims, clock) ==
    IF "exp" \in DOMAIN claims
    THEN [claims EXCEPT !["exp"] = I(clock - t.expiration)]
    ELSE claims

updateExpiration(t, claims, clock) ==
    IF "exp" \in DOMAIN claims
    THEN [claims EXCEPT !["exp"] = I(clock + t.expiration)]
    ELSE claims

\* updateIssuedAt without the presence test: iat is always written
updateIssuedAtAlways(t, claims, clock) ==
    [k \in DOMAIN claims \cup {"iat"} |-> IF k = "iat" THEN I(clock) ELSE claims[k]]

\* updateIssuedAt that stamps the second after the current one
updateIssuedAtAhead(t, claims, clock) ==
    IF "iat" \in DOMAIN claims
    THEN [claims EXCEPT !["iat"] = I(clock + 1)]
    ELSE claims

updateIssuedAt(t, claims, clock) ==
    IF "iat" \in DOMAIN claims
    THEN [claims EXCEPT !["iat"] = I(clock)]
    ELSE claims

\* regenerateToken that recomposes the claims from the standard claims of the
\* configuration instead of taking them from the parsed token
regenerateTokenFromStandard(t, clock) ==
    IF ~t.issued THEN [err |-> ErrTokenNotGenerated, token |-> NoToken]
    ELSE LET p == ParseToken(t, clock)
         IN  IF p.err # NoErr THEN [err |-> p.err, token |-> NoToken]
             ELSE LET base == copyStandardClaims(EmptyClaims, t.standardClaims)
                      claims == updateIssuedAt(t, updateExpiration(t, base, clock), clock)
                      s == SignedString(t.signingMethod, claims, t.secretKey)
                  IN  IF s.err THEN [err |-> ErrSigningToken, token |-> NoToken]
                      ELSE [err |-> NoErr, token |-> s.token]

\* regenerateToken that does not validate the claims of the stored token: an
\* expired token is rotated like a valid one
regenerateTokenLenient(t, clock) ==
    IF ~t.issued THEN [err |-> ErrTokenNotGenerated, token |-> NoToken]
    ELSE LET p == ParseTokenUnvalidated(t, clock)
         IN  IF p.err # NoErr THEN [err |-> p.err, token |-> NoToken]
             ELSE LET claims == updateIssuedAt(t, updateExpiration(t, p.claims, clock), clock)
                      s == SignedString(t.signingMethod, claims, t.secretKey)
                  IN  IF s.err THEN [err |-> ErrSigningToken, token |-> NoToken]
                      ELSE [err |-> NoErr, token |-> s.token]

regenerateToken(t, clock) ==
    IF ~t.issued THEN [err |-> ErrTokenNotGenerated, token |-> NoToken]
    ELSE LET p == ParseToken(t, clock)
         IN  IF p.err # NoErr THEN [err |-> p.err, token |-> NoToken]
             ELSE LET claims == updateIssuedAt(t, updateExpiration(t, p.claims, clock), clock)
                      s == SignedString(t.signingMethod, claims, t.secretKey)
                  IN  IF s.err THEN [err |-> ErrSigningToken, token |-> NoToken]
                      ELSE [err |-> NoErr, token |-> s.token]

\* GenerateToken with an expiry check before the first issuance
GenerateTokenChecksExpiry(t, clock) ==
    IF t.issued THEN regenerateToken(t, clock)
    ELSE IF t.standardClaims.ExpiresAt # 0 /\ t.standardClaims.ExpiresAt < clock
         THEN [err |-> ErrTokenInvalid, token |-> NoToken]
         ELSE LET combinedClaims == copyClaims(EmptyClaims, t.standardClaims, t.customClaims)
                  s == SignedString(t.signingMethod, combinedClaims, t.secretKey)
              IN  IF s.err THEN [err |-> ErrSigningToken, token |-> NoToken]
                  ELSE [err |-> NoErr, token |-> s.token]

\* GenerateToken that signs the standard claims only
GenerateTokenStandardOnly(t, clock) ==
    IF t.issued THEN regenerateToken(t, clock)
    ELSE LET combinedClaims == copyStandardClaims(EmptyClaims, t.standardClaims)
             s == SignedString(t.signingMethod, combinedClaims, t.secretKey)
         IN  IF s.err THEN [err |-> ErrSigningToken, token |-> NoToken]
             ELSE [err |-> NoErr, token |-> s.token]

\* GenerateToken: the error and the token returned; the token is stored
\* exactly when the error is nil
GenerateToken(t, clock) ==
    IF t.issued THEN regenerateToken(t, clock)
    ELSE LET combinedClaims == copyClaims(EmptyClaims, t.standardClaims, t.customClaims)
             s == SignedString(t.signingMethod, combinedClaims, t.secretKey)
         IN  IF s.err THEN [err |-> ErrSigningToken, token |-> NoToken]
             ELSE [err |-> NoErr, token |-> s.token]

ExtractClaims(t, clock) ==
    IF ~t.issued THEN [err |-> ErrTokenNotGenerated, claims |-> EmptyClaims]
    ELSE ParseToken(t, clock)

\* IsValid with the comparison exp <= now
IsValidAtOrBefore(t, clock) ==
    IF ~t.issued THEN [err |-> NoErr, ok |-> FALSE]
    ELSE LET p == ParseToken(t, clock)
         IN  IF p.err # NoErr THEN [err |-> NoErr, ok |-> FALSE]
             ELSE IF "exp" \in DOMAIN p.claims
                  THEN IF p.claims["exp"].t # "float64"
                       THEN [err |-> Panic, ok |-> FALSE]
                       ELSE [err |-> NoErr, ok |-> ~(p.claims["exp"].v <= clock)]
                  ELSE [err |-> NoErr, ok |-> TRUE]

\* IsValid with the comparison turned around: exp > now
IsValidInverted(t, clock) ==
    IF ~t.issued THEN [err |-> NoErr, ok |-> FALSE]
    ELSE LET p == ParseToken(t, clock)
         IN  IF p.err # NoErr THEN [err |-> NoErr, ok |-> FALSE]
             ELSE IF "exp" \in DOMAIN p.claims
                  THEN IF p.claims["exp"].t # "float64"
                       THEN [err |-> Panic, ok |-> FALSE]
                       ELSE [err |-> NoErr, ok |-> ~(p.claims["exp"].v > clock)]
                  ELSE [err |-> NoErr, ok |-> TRUE]

\* IsValid that returns true when ParseToken fails
IsValidParseErrorTrue(t, clock) ==
    IF ~t.issued THEN [err |-> NoErr, ok |-> FALSE]
    ELSE LET p == ParseToken(t, clock)
         IN  IF p.err # NoErr THEN [err |-> NoErr, ok |-> TRUE]
             ELSE IF "exp" \in DOMAIN p.claims
                  THEN IF p.claims["exp"].t # "float64"
                       THEN [err |-> Panic, ok |-> FALSE]
                       ELSE [err |-> NoErr, ok |-> ~(p.claims["exp"].v < clock)]
                  ELSE [err |-> NoErr, ok |-> TRUE]

\* IsValid: the asserted conversion claims["exp"].(float64) aborts on a value
\* of another type
IsValid(t, clock) ==
    IF ~t.issued THEN [err |-> NoErr, ok |-> FALSE]
    ELSE LET p == ParseToken(t, clock)
         IN  IF p.err # NoErr THEN [err |-> NoErr, ok |-> FALSE]
             ELSE IF "exp" \in DOMAIN p.claims
                  THEN IF p.claims["exp"].t # "float64"
                       THEN [err |-> Panic, ok |-> FALSE]
                       ELSE [err |-> NoErr, ok |-> ~(p.claims["exp"].v < clock)]
                  ELSE [err |-> NoErr, ok |-> TRUE]

\* RefreshToken without the validity check of the refresh configuration
RefreshTokenUnchecked(t, refreshConfig, clock) ==
    IF ~t.issued \/ ~refreshConfig.built
    THEN [err |-> ErrTokenNotGenerated, token |-> NoToken]
    ELSE GenerateToken(t, clock)

\* RefreshToken with the two checks in the other order: the validity of the
\* refresh configuration first, the issuance of the receiver second
RefreshTokenValidityFirst(t, refreshConfig, clock) ==
    LET v == IsValid(refreshConfig, clock)
    IN  IF v.err # NoErr THEN [err |-> v.err, token |-> NoToken]
        ELSE IF ~v.ok THEN [err |-> ErrTokenInvalid, token |-> NoToken]
        ELSE IF ~t.issued \/ ~refreshConfig.built
             THEN [err |-> ErrTokenNotGenerated, token |-> NoToken]
             ELSE GenerateToken(t, clock)

\* t.RefreshToken(refreshConfig); an unbuilt refreshConfig is the nil pointer
RefreshToken(t, refreshConfig, clock) ==
    IF ~t.issued \/ ~refreshConfig.built
    THEN [err |-> ErrTokenNotGenerated, token |-> NoToken]
    ELSE LET v == IsValid(refreshConfig, clock)
         IN  IF v.err # NoErr THEN [err |-> v.err, token |-> NoToken]
             ELSE IF ~v.ok THEN [err |-> ErrTokenInvalid, token |-> NoToken]
             ELSE GenerateToken(t, clock)

---------------------------------------------------------------------------
(* The callers' inputs *)

\* each slot is given its own key, as in the package example
SecretOf(id) == IF id = "access" THEN "access_secret" ELSE "refresh_secret"

\* arguments of SecretKey: the slot's key and, for the access slot, the nil key
KeyChoices(id) ==
    IF id = "access" THEN <<SecretOf(id), NilBytes>> ELSE <<SecretOf(id)>>

\* arguments of WithSigningMethod: a method that cannot sign with a []byte
\* key, and nil
MethodChoices(id) ==
    IF id = "access" THEN <<"RS256", NoMethod>> ELSE <<>>

\* arguments of WithStandardClaims; the first two lack the expiration
StdChoices(id) ==
    IF id = "access"
    THEN << ZeroStandardClaims,
            [ZeroStandardClaims EXCEPT !.Issuer = "test", !.Audience = "test"],
            [ZeroStandardClaims EXCEPT !.ExpiresAt = 2],
            [ZeroStandardClaims EXCEPT !.ExpiresAt = 3, !.Issuer = "test",
                                       !.Audience = "test"],
            [ZeroStandardClaims EXCEPT !.ExpiresAt = 4, !.IssuedAt = 2,
                                       !.NotBefore = 2, !.Subject = "u1",
                                       !.Id = "j1"] >>
    ELSE << ZeroStandardClaims,
            [ZeroStandardClaims EXCEPT !.ExpiresAt = 3] >>

\* arguments of WithCustomClaims; the first is the empty map
CustomChoices(id) ==
    IF id = "access"
    THEN << EmptyClaims,
            [k \in {"role", "level"} |-> IF k = "role" THEN S("admin") ELSE I(7)],
            [k \in {"exp"} |-> S("never")],
            [k \in {"exp", "iat"} |-> IF k = "exp" THEN I(3) ELSE I(1)] >>
    ELSE <<>>

Reverse(s) == [i \in 1..Len(s) |-> s[Len(s) + 1 - i]]

\* the option lists: at most one option of each kind, in this order or the
\* reverse one (0 leaves the option out)
OptionLists(id) ==
    { LET l == (IF sk = 0 THEN <<>> ELSE <<SecretKey(KeyChoices(id)[sk])>>)
               \o (IF me = 0 THEN <<>> ELSE <<WithSigningMethod(MethodChoices(id)[me])>>)
               \o (IF st = 0 THEN <<>> ELSE <<WithStandardClaims(StdChoices(id)[st])>>)
               \o (IF cu = 0 THEN <<>> ELSE <<WithCustomClaims(CustomChoices(id)[cu])>>)
      IN  IF rev THEN Reverse(l) ELSE l :
        sk \in 0..Len(KeyChoices(id)), me \in 0..Len(MethodChoices(id)), st \in 0..Len(StdChoices(id)),
        cu \in 0..Len(CustomChoices(id)), rev \in BOOLEAN }

---------------------------------------------------------------------------
(* The state machine *)

\* no call since the clock last advanced.  op, id and arg name the call, err,
\* token, claims and ok are what it returned; prev and prevAt are the token
\* and the stampedAt the receiver held when GenerateToken or RefreshToken was
\* called (NoToken: none), and for RefreshToken ok is what IsValid returned
\* for the refresh configuration.  For GenerateTokenPair id and arg name the
\* access and the refresh configuration, token and refresh are the two tokens
\* returned, and prev and prevAt are those of the access configuration.
\* options is the option list of a NewToken call considered on its own.
\* calls and writer are the two GenerateToken calls in flight on one
\* configuration, and the call that stored the token last (0: none of them).
Idle ==
    [op |-> "none", id |-> "", arg |-> "", err |-> NoErr, token |-> NoToken,
     claims |-> EmptyClaims, ok |-> FALSE, prev |-> NoToken, prevAt |-> 0,
     refresh |-> NoToken, options |-> <<>>, calls |-> <<>>, writer |-> 0]

Init ==
    /\ now = 1
    /\ cfg = [id \in CfgIds |-> NilConfig]
    /\ res = Idle

\* a second passes
Tick ==
    /\ now < MaxTime
    /\ now' = now + 1
    /\ res' = Idle
    /\ UNCHANGED cfg

\* cfg[id], err = NewToken(options...), for a slot that holds no configuration
CallNewToken(id) ==
    /\ ~cfg[id].built
    /\ \E options \in OptionLists(id) :
         LET r == NewToken(options, now)
         IN  /\ cfg' = [cfg EXCEPT ![id] = r.cfg]
             /\ res' = [Idle EXCEPT !.op = "NewToken", !.id = id, !.err = r.err]
    /\ UNCHANGED now

\* Stored that keeps the first token: a regenerated token is returned and not
\* stored
StoredFirstOnly(t, r, clock) ==
    IF r.err = NoErr /\ ~t.issued
    THEN [t EXCEPT !.token = r.token, !.issued = TRUE]
    ELSE t

\* Stored without the test of the error: the token pointer is assigned
\* whatever the call returned
StoredAlways(t, r, clock) ==
    [t EXCEPT !.token = r.token,
              !.stampedAt = IF t.issued THEN clock ELSE t.stampedAt,
              !.issued = TRUE]

\* Stored that also takes the new token's lifetime as the duration: the
\* duration is cleared with every token stored
StoredResetsDuration(t, r, clock) ==
    IF r.err = NoErr
    THEN [t EXCEPT !.token = r.token,
                   !.stampedAt = IF t.issued THEN clock ELSE t.stampedAt,
                   !.issued = TRUE,
                   !.expiration = 0]
    ELSE t

\* the configuration after a call that returned r: the token is stored
\* exactly when the call succeeded
Stored(t, r, clock) ==
    IF r.err = NoErr
    THEN [t EXCEPT !.token = r.token,
                   !.stampedAt = IF t.issued THEN clock ELSE t.stampedAt,
                   !.issued = TRUE]
    ELSE t

\* GenerateTokenPair with the nil test of refreshConfig made after the access
\* token was generated
GenerateTokenPairLateNilCheck(c, a, r, clock) ==
    IF ~c[a].built
    THEN [err |-> ErrTokenConfigNil, accessToken |-> NoToken,
          refreshToken |-> NoToken, cfg |-> c]
    ELSE LET ra == GenerateToken(c[a], clock)
             c1 == [c EXCEPT ![a] = Stored(c[a], ra, clock)]
         IN  IF ~c[r].built
             THEN [err |-> ErrTokenConfigNil, accessToken |-> NoToken,
                   refreshToken |-> NoToken, cfg |-> c1]
             ELSE IF ra.err # NoErr
             THEN [err |-> ra.err, accessToken |-> NoToken,
                   refreshToken |-> NoToken, cfg |-> c1]
             ELSE LET rr == GenerateToken(c1[r], clock)
                      c2 == [c1 EXCEPT ![r] = Stored(c1[r], rr, clock)]
                  IN  IF rr.err # NoErr
                      THEN [err |-> rr.err, accessToken |-> NoToken,
                            refreshToken |-> NoToken, cfg |-> c2]
                      ELSE [err |-> NoErr, accessToken |-> ra.token,
                            refreshToken |-> rr.token, cfg |-> c2]

\* GenerateTokenPair that hands the access token out when the refresh
\* generation fails
GenerateTokenPairPartial(c, a, r, clock) ==
    IF ~c[a].built \/ ~c[r].built
    THEN [err |-> ErrTokenConfigNil, accessToken |-> NoToken,
          refreshToken |-> NoToken, cfg |-> c]
    ELSE LET ra == GenerateToken(c[a], clock)
             c1 == [c EXCEPT ![a] = Stored(c[a], ra, clock)]
         IN  IF ra.err # NoErr
             THEN [err |-> ra.err, accessToken |-> NoToken,
                   refreshToken |-> NoToken, cfg |-> c1]
             ELSE LET rr == GenerateToken(c1[r], clock)
                      c2 == [c1 EXCEPT ![r] = Stored(c1[r], rr, clock)]
                  IN  IF rr.err # NoErr
                      THEN [err |-> rr.err, accessToken |-> ra.token,
                            refreshToken |-> NoToken, cfg |-> c2]
                      ELSE [err |-> NoErr, accessToken |-> ra.token,
                            refreshToken |-> rr.token, cfg |-> c2]

\* GenerateTokenPair(accessConfig, refreshConfig): c holds the configurations,
\* a and r say which two are passed (an unbuilt one is the nil pointer, and
\* a = r passes one configuration twice).  The access token is generated and
\* stored before the refresh token is attempted; cfg is what the
\* configurations are when the call returns.
GenerateTokenPair(c, a, r, clock) ==
    IF ~c[a].built \/ ~c[r].built
    THEN [err |-> ErrTokenConfigNil, accessToken |-> NoToken,
          refreshToken |-> NoToken, cfg |-> c]
    ELSE LET ra == GenerateToken(c[a], clock)
             c1 == [c EXCEPT ![a] = Stored(c[a], ra, clock)]
         IN  IF ra.err # NoErr
             THEN [err |-> ra.err, accessToken |-> NoToken,
                   refreshToken |-> NoToken, cfg |-> c1]
             ELSE LET rr == GenerateToken(c1[r], clock)
                      c2 == [c1 EXCEPT ![r] = Stored(c1[r], rr, clock)]
                  IN  IF rr.err # NoErr
                      THEN [err |-> rr.err, accessToken |-> NoToken,
                            refreshToken |-> NoToken, cfg |-> c2]
                      ELSE [err |-> NoErr, accessToken |-> ra.token,
                            refreshToken |-> rr.token, cfg |-> c2]

\* GenerateTokenPair(cfg[id], cfg[rid])
CallGenerateTokenPair(id, rid) ==
    /\ \E r \in {GenerateTokenPair(cfg, id, rid, now)} :
           /\ cfg' = r.cfg
           /\ res' = [Idle EXCEPT !.op = "GenerateTokenPair", !.id = id,
                                  !.arg = rid, !.err = r.err,
                                  !.token = r.accessToken,
                                  !.refresh = r.refreshToken,
                                  !.prev = cfg[id].token,
                                  !.prevAt = cfg[id].stampedAt]
    /\ UNCHANGED now

\* cfg[id].GenerateToken()
CallGenerateToken(id) ==
    /\ cfg[id].built
    /\ \E r \in {GenerateToken(cfg[id], now)} :
           /\ cfg' = [cfg EXCEPT ![id] = Stored(cfg[id], r, now)]
           /\ res' = [Idle EXCEPT !.op = "GenerateToken", !.id = id, !.err = r.err,
                                  !.token = r.token, !.prev = cfg[id].token,
                                  !.prevAt = cfg[id].stampedAt]
    /\ UNCHANGED now

\* cfg[id].RefreshToken(cfg[rid])
CallRefreshToken(id, rid) ==
    /\ cfg[id].built
    /\ \E r \in {RefreshToken(cfg[id], cfg[rid], now)} :
           /\ cfg' = [cfg EXCEPT ![id] = Stored(cfg[id], r, now)]
           /\ res' = [Idle EXCEPT !.op = "RefreshToken", !.id = id, !.arg = rid,
                                  !.err = r.err, !.token = r.token,
                                  !.ok = IsValid(cfg[rid], now).ok,
                                  !.prev = cfg[id].token,
                                  !.prevAt = cfg[id].stampedAt]
    /\ UNCHANGED now

\* cfg[id].ParseToken()
CallParseToken(id) ==
    /\ cfg[id].built
    /\ \E r \in {ParseToken(cfg[id], now)} :
           res' = [Idle EXCEPT !.op = "ParseToken", !.id = id, !.err = r.err,
                               !.claims = r.claims]
    /\ UNCHANGED <<now, cfg>>

\* cfg[id].ExtractClaims()
CallExtractClaims(id) ==
    /\ cfg[id].built
    /\ \E r \in {ExtractClaims(cfg[id], now)} :
           res' = [Idle EXCEPT !.op = "ExtractClaims", !.id = id, !.err = r.err,
                               !.claims = r.claims]
    /\ UNCHANGED <<now, cfg>>

\* cfg[id].IsValid()
CallIsValid(id) ==
    /\ cfg[id].built
    /\ \E r \in {IsValid(cfg[id], now)} :
           res' = [Idle EXCEPT !.op = "IsValid", !.id = id, !.err = r.err,
                               !.ok = r.ok]
    /\ UNCHANGED <<now, cfg>>

Next ==
    \/ Tick
    \/ \E id \in CfgIds : CallNewToken(id)
    \/ \E id \in CfgIds : CallGenerateToken(id)
    \/ \E id \in CfgIds : \E rid \in CfgIds : CallGenerateTokenPair(id, rid)
    \/ \E id \in CfgIds : \E rid \in CfgIds : CallRefreshToken(id, rid)
    \/ \E id \in CfgIds : CallParseToken(id)
    \/ \E id \in CfgIds : CallExtractClaims(id)
    \/ \E id \in CfgIds : CallIsValid(id)

Spec == Init /\ [][Next]_vars

---------------------------------------------------------------------------
(* Claim composition on its own: the three copy functions applied to       *)
(* arguments drawn from bounded sets, as the package's tests call them      *)

\* the int64 fields of the standard claims range over 0..MaxField
MaxField == 1

\* every jwt.StandardClaims with each int64 field in 0..MaxField and each
\* string field empty or not
StdInputs ==
    [ExpiresAt : 0..MaxField, IssuedAt : 0..MaxField, NotBefore : 0..MaxField,
     Issuer : {"", "test"}, Audience : {"", "test"}, Subject : {"", "u1"},
     Id : {"", "j1"}]

\* the keys and the values of the custom maps: two reserved keys, one of an
\* int64 and one of a string field, and a key of the caller's own
CustomKeys == {"exp", "iss", "role"}
CustomValues == {I(999), S("custom")}

\* every custom map over a subset of CustomKeys
CustomInputs ==
    UNION {[ks -> CustomValues] : ks \in SUBSET CustomKeys}

\* the arguments are held in the fields of the access configuration, from which
\* GenerateToken passes them to copyClaims
CopyInit ==
    /\ now = 1
    /\ \E sc \in StdInputs : \E cu \in CustomInputs :
         cfg = [id \in CfgIds |->
                   IF id = "access"
                   THEN [NilConfig EXCEPT !.built = TRUE,
                                          !.secretKey = SecretOf(id),
                                          !.signingMethod = "HS256",
                                          !.standardClaims = sc,
                                          !.customClaims = cu]
                   ELSE NilConfig]
    /\ res = Idle

\* claims := make(jwt.MapClaims); copyClaims(&claims, standardClaims, customClaims)
CallCopyClaims ==
    /\ res' = [Idle EXCEPT !.op = "copyClaims", !.id = "access",
                           !.claims = copyClaims(EmptyClaims,
                                                 cfg["access"].standardClaims,
                                                 cfg["access"].customClaims)]
    /\ UNCHANGED <<now, cfg>>

\* copyStandardClaims(&claims, standardClaims) on a map that holds the custom
\* claims already
CallCopyStandardClaims ==
    /\ res' = [Idle EXCEPT !.op = "copyStandardClaims", !.id = "access",
                           !.claims = copyStandardClaims(cfg["access"].customClaims,
                                                         cfg["access"].standardClaims)]
    /\ UNCHANGED <<now, cfg>>

\* claims := make(jwt.MapClaims); copyCustomClaims(&claims, customClaims)
CallCopyCustomClaims ==
    /\ res' = [Idle EXCEPT !.op = "copyCustomClaims", !.id = "access",
                           !.claims = copyCustomClaims(EmptyClaims,
                                                       cfg["access"].customClaims)]
    /\ UNCHANGED <<now, cfg>>

CopyNext ==
    \/ CallCopyClaims
    \/ CallCopyStandardClaims
    \/ CallCopyCustomClaims

CopySpec == CopyInit /\ [][CopyNext]_vars

---------------------------------------------------------------------------
(* NewToken on its own: one call, at any time, with any of the option      *)
(* lists                                                                   *)

\* the call about to be made: its option list and the slot it is for
NewInit ==
    /\ now \in 1..MaxTime
    /\ cfg = [id \in CfgIds |-> NilConfig]
    /\ \E id \in CfgIds : \E options \in OptionLists(id) :
         res = [Idle EXCEPT !.id = id, !.options = options]

\* cfg[res.id], err = NewToken(res.options...)
CallNewTokenWith ==
    /\ res.op = "none"
    /\ \E r \in {NewToken(res.options, now)} :
           /\ cfg' = [cfg EXCEPT ![res.id] = r.cfg]
           /\ res' = [res EXCEPT !.op = "NewToken", !.err = r.err]
    /\ UNCHANGED now

NewNext == CallNewTokenWith

NewSpec == NewInit /\ [][NewNext]_vars

---------------------------------------------------------------------------
(* Verification of a token a caller presents: verifyToken of the Auth      *)
(* variant (package gauth) and ParseToken of package dauth                 *)

\* the *jwt.ValidationError that jwt.Parse returns and both functions pass on
JwtError == "jwt.ValidationError"

\* the method package dauth signs every token with
DauthMethod == "HS256"

\* Auth.verifyToken(tokenString, signingMethod, secretKey): the key function
\* refuses a token whose method is not signingMethod, which makes jwt.Parse fail
verifyToken(tok, signingMethod, secretKey, clock) ==
    IF tok.alg # signingMethod THEN [err |-> JwtError, claims |-> EmptyClaims]
    ELSE LET p == jwtParse(tok, secretKey, clock)
         IN  IF p.err THEN [err |-> JwtError, claims |-> EmptyClaims]
             ELSE [err |-> NoErr, claims |-> p.claims]

\* dauth's ParseToken without the verification of the signature
dauthParseTokenUnverified(tok, secret, clock) ==
    LET claims == DecodeClaims(tok.claims)
    IN  IF ~ClaimsValid(claims, clock) THEN [err |-> JwtError, claims |-> EmptyClaims]
        ELSE [err |-> NoErr, claims |-> claims]

\* dauth's Auth.ParseToken(tokenString): the key function returns the access
\* secret whatever the method of the token
dauthParseToken(tok, secret, clock) ==
    LET p == jwtParse(tok, secret, clock)
    IN  IF p.err THEN [err |-> JwtError, claims |-> EmptyClaims]
        ELSE [err |-> NoErr, claims |-> p.claims]

\* the tokens a caller may present: of any method, signed with the access or
\* the refresh secret, with no exp or an exp within the model's time
PresentedMethods == {"HS256", "HS512", "RS256", "none"}
PresentedTokens ==
    [alg : PresentedMethods,
     key : {SecretOf(id) : id \in CfgIds},
     claims : {EmptyClaims} \cup
              {[k \in {"exp"} |-> [t |-> "number", v |-> e]] : e \in 1..MaxTime}]

\* an Auth with its two secrets; res.prev is the token presented and res.arg
\* the signing method passed to VerifyAccessToken
VerifyInit ==
    /\ now \in 1..MaxTime
    /\ cfg = [id \in CfgIds |->
                 [NilConfig EXCEPT !.built = TRUE, !.secretKey = SecretOf(id),
                                   !.signingMethod = DauthMethod]]
    /\ \E tok \in PresentedTokens : \E method \in HMACMethods :
         res = [Idle EXCEPT !.prev = tok, !.arg = method]

\* a.VerifyAccessToken(tokenString, signingMethod)
CallVerifyAccessToken ==
    /\ res.op = "none"
    /\ \E r \in {verifyToken(res.prev, res.arg, cfg["access"].secretKey, now)} :
           res' = [res EXCEPT !.op = "VerifyAccessToken", !.id = "access",
                              !.err = r.err, !.claims = r.claims]
    /\ UNCHANGED <<now, cfg>>

\* a.ParseToken(tokenString) of package dauth
CallDauthParseToken ==
    /\ res.op = "none"
    /\ \E r \in {dauthParseToken(res.prev, cfg["access"].secretKey, now)} :
           res' = [res EXCEPT !.op = "DauthParseToken", !.id = "access",
                              !.err = r.err, !.claims = r.claims]
    /\ UNCHANGED <<now, cfg>>

VerifyNext ==
    \/ CallVerifyAccessToken
    \/ CallDauthParseToken

VerifySpec == VerifyInit /\ [][VerifyNext]_vars

---------------------------------------------------------------------------
(* Two GenerateToken calls on one configuration that the caller does not   *)
(* serialize: the steps of each call between its accesses to t.token, the  *)
(* only field the calls share and write                                    *)

Goroutines == {1, 2}

Other(g) == 3 - g

\* a call that has not read t.token yet.  path is the branch it took at the
\* nil test, token the signed token it holds (returned when pc is "done")
NotStarted == [pc |-> "start", path |-> "", err |-> NoErr, token |-> NoToken]

\* the configurations NewToken builds at second 1 from the option lists of the
\* access slot
RaceConfigs ==
    {NewToken(o, 1).cfg : o \in {l \in OptionLists("access") : NewToken(l, 1).err = NoErr}}

\* the configuration, with or without a first token issued at second 1, at
\* the time the two calls start
RaceInit ==
    /\ now \in 1..MaxTime
    /\ \E t \in RaceConfigs : \E first \in BOOLEAN :
          LET t0 == IF first THEN Stored(t, GenerateToken(t, 1), 1) ELSE t
          IN  /\ cfg = [id \in CfgIds |-> IF id = "access" THEN t0 ELSE NilConfig]
              /\ res = [Idle EXCEPT !.op = "race", !.id = "access",
                                    !.prev = t0.token,
                                    !.calls = [g \in Goroutines |-> NotStarted]]

\* a fault in one goroutine ends the program
Running == \A g \in Goroutines : res.calls[g].pc # "abort"

\* what a call can read through t.token.  The calls are not ordered by any
\* synchronization, so a token the other call stored may be read as it was
\* stored, as the zero string of its allocation, or with the two words of its
\* header from different writes
Observed(g) ==
    IF res.writer = Other(g) THEN {"stored", "zero", "torn"} ELSE {"stored"}

\* the nil test of t.token at the top of GenerateToken
EnterGenerateToken(g) ==
    /\ Running
    /\ res.calls[g].pc = "start"
    /\ res' = [res EXCEPT !.calls[g].pc = "run",
                          !.calls[g].path = IF cfg[res.id].issued THEN "regen"
                                                                  ELSE "first"]
    /\ UNCHANGED <<now, cfg>>

\* first issuance up to the signature: the claims are composed and signed
ComposeAndSign(g) ==
    /\ Running
    /\ res.calls[g].pc = "run" /\ res.calls[g].path = "first"
    /\ \E r \in {GenerateToken([cfg[res.id] EXCEPT !.issued = FALSE,
                                                   !.token = NoToken], now)} :
          res' = [res EXCEPT !.calls[g].pc = IF r.err = NoErr THEN "write" ELSE "done",
                             !.calls[g].err = r.err,
                             !.calls[g].token = r.token]
    /\ UNCHANGED <<now, cfg>>

\* regenerateToken up to the signature: t.token is read and parsed, the time
\* claims are updated and the claims signed
ParseAndSign(g) ==
    /\ Running
    /\ res.calls[g].pc = "run" /\ res.calls[g].path = "regen"
    /\ \E seen \in Observed(g) :
          IF seen = "torn"
          THEN res' = [res EXCEPT !.calls[g].pc = "abort", !.calls[g].err = Panic]
          ELSE \E r \in {regenerateToken(
                            IF seen = "zero" THEN [cfg[res.id] EXCEPT !.token = NoToken]
                                             ELSE cfg[res.id], now)} :
                  res' = [res EXCEPT
                             !.calls[g].pc = IF r.err = NoErr THEN "write" ELSE "done",
                             !.calls[g].err = r.err,
                             !.calls[g].token = r.token]
    /\ UNCHANGED <<now, cfg>>

\* t.token = &signedToken, and the return of the token
StoreToken(g) ==
    /\ Running
    /\ res.calls[g].pc = "write"
    /\ cfg' = [cfg EXCEPT ![res.id] =
                  Stored(cfg[res.id], [err |-> NoErr, token |-> res.calls[g].token], now)]
    /\ res' = [res EXCEPT !.calls[g].pc = "done", !.writer = g]
    /\ UNCHANGED now

RaceNext ==
    \E g \in Goroutines :
        \/ EnterGenerateToken(g)
        \/ ComposeAndSign(g)
        \/ ParseAndSign(g)
        \/ StoreToken(g)

RaceSpec == RaceInit /\ [][RaceNext]_vars

---------------------------------------------------------------------------
(* The Auth variants: package gauth (gauth.go), whose Auth signs the        *)
(* standard claims of its configuration, and the Auth of package hydrate,   *)
(* whose Auth composes custom and standard claims.  An Auth keeps no token: *)
(* the caller holds the token strings and passes them back                  *)

\* errors.New("invalid token claims")
ErrInvalidTokenClaims == "invalid token claims"

\* the dynamic type of token.Claims after jwt.Parse, which parses into a
\* MapClaims value
ParsedClaimsType == "jwt.MapClaims"

\* the type assertions token.Claims.(T) of the two RefreshAccessToken and of
\* IsValid
GauthAssertedType == "*jwt.StandardClaims"
AuthAssertedType == "*jwt.MapClaims"

\* v, ok := x.(T) for a value x of dynamic type dyn: ok is whether dyn is T
TypeAssertion(dyn, T) == dyn = T

\* the signing methods a caller passes
AuthMethods == {"HS256", "HS512"}

\* gauth's GenerateAccessToken and GenerateRefreshToken on the configuration
\* c: the standard claims are signed, their zero fields left out
gauthGenerateToken(c, signingMethod) ==
    LET s == SignedString(signingMethod,
                          copyStandardClaims(EmptyClaims, c.standardClaims),
                          c.secretKey)
    IN  IF s.err THEN [err |-> JwtError, token |-> NoToken]
        ELSE [err |-> NoErr, token |-> s.token]

\* hydrate Auth's GenerateAccessToken and GenerateRefreshToken on c
authGenerateToken(c, signingMethod) ==
    LET combinedClaims ==
            copyStandardClaims(copyCustomClaims(EmptyClaims, c.customClaims),
                               c.standardClaims)
        s == SignedString(signingMethod, combinedClaims, c.secretKey)
    IN  IF s.err THEN [err |-> JwtError, token |-> NoToken]
        ELSE [err |-> NoErr, token |-> s.token]

\* gauth's RefreshAccessToken and RefreshRefreshToken
gauthRefreshToken(c, tok, signingMethod, clock) ==
    LET v == verifyToken(tok, signingMethod, c.secretKey, clock)
    IN  IF v.err # NoErr THEN [err |-> v.err, token |-> NoToken]
        ELSE IF ~TypeAssertion(ParsedClaimsType, GauthAssertedType)
             THEN [err |-> ErrInvalidTokenClaims, token |-> NoToken]
             ELSE gauthGenerateToken(c, signingMethod)

\* hydrate Auth's RefreshAccessToken and RefreshRefreshToken
authRefreshToken(c, tok, signingMethod, clock) ==
    LET v == verifyToken(tok, signingMethod, c.secretKey, clock)
    IN  IF v.err # NoErr THEN [err |-> v.err, token |-> NoToken]
        ELSE IF ~TypeAssertion(ParsedClaimsType, AuthAssertedType)
             THEN [err |-> ErrInvalidTokenClaims, token |-> NoToken]
             ELSE authGenerateToken(c, signingMethod)

\* hydrate Auth's IsValid(tokenString, signingMethod, secretKey); token.Valid
\* is true whenever jwt.Parse returned no error
authIsValid(tok, signingMethod, secretKey, clock) ==
    LET v == verifyToken(tok, signingMethod, secretKey, clock)
    IN  IF v.err # NoErr THEN FALSE
        ELSE IF ~TypeAssertion(ParsedClaimsType, AuthAssertedType) THEN FALSE
        ELSE TRUE

\* arguments of the builders' WithStandardClaims and WithCustomClaims
AuthStdChoices ==
    { ZeroStandardClaims,
      [ZeroStandardClaims EXCEPT !.ExpiresAt = 2],
      [ZeroStandardClaims EXCEPT !.ExpiresAt = 3, !.Issuer = "test"] }

AuthCustomChoices ==
    { EmptyClaims,
      [k \in {"role", "level"} |-> IF k = "role" THEN S("admin") ELSE I(7)],
      [k \in {"iss", "role"} |-> IF k = "role" THEN S("admin") ELSE S("other")] }

\* NewAuth(accessConfig, refreshConfig); the caller holds no token yet
AuthInit ==
    /\ now = 1
    /\ \E sc \in AuthStdChoices : \E cc \in AuthCustomChoices :
          cfg = [id \in CfgIds |->
                    [NilConfig EXCEPT !.built = TRUE, !.secretKey = SecretOf(id),
                                      !.standardClaims = sc,
                                      !.customClaims = IF id = "access" THEN cc
                                                       ELSE EmptyClaims]]
    /\ res = [Idle EXCEPT !.op = "NewAuth"]

\* a second passes; the caller keeps the token it holds
AuthTick ==
    /\ now < MaxTime
    /\ now' = now + 1
    /\ res' = [Idle EXCEPT !.token = res.token]
    /\ UNCHANGED cfg

\* res after a call that presented the token held and returned r: the caller
\* holds the token returned, or else the one it held
AfterCall(op, id, method, r) ==
    [Idle EXCEPT !.op = op, !.id = id, !.arg = method, !.err = r.err,
                 !.prev = res.token,
                 !.token = IF r.err = NoErr THEN r.token ELSE res.token]

\* gauth: a.GenerateAccessToken(m) for id "access", a.GenerateRefreshToken(m)
\* for id "refresh"
CallGauthGenerate(id, method) ==
    /\ \E r \in {gauthGenerateToken(cfg[id], method)} :
          res' = AfterCall("gauth.Generate", id, method, r)
    /\ UNCHANGED <<now, cfg>>

\* hydrate Auth: a.GenerateAccessToken(m), a.GenerateRefreshToken(m)
CallAuthGenerate(id, method) ==
    /\ \E r \in {authGenerateToken(cfg[id], method)} :
          res' = AfterCall("hydrate.Generate", id, method, r)
    /\ UNCHANGED <<now, cfg>>

\* gauth: a.RefreshAccessToken(tokenString, m), a.RefreshRefreshToken(...)
\* with the token the caller holds
CallGauthRefresh(id, method) ==
    /\ res.token # NoToken
    /\ \E r \in {gauthRefreshToken(cfg[id], res.token, method, now)} :
          res' = AfterCall("gauth.Refresh", id, method, r)
    /\ UNCHANGED <<now, cfg>>

\* hydrate Auth: a.RefreshAccessToken(tokenString, m), a.RefreshRefreshToken(...)
CallAuthRefresh(id, method) ==
    /\ res.token # NoToken
    /\ \E r \in {authRefreshToken(cfg[id], res.token, method, now)} :
          res' = AfterCall("hydrate.Refresh", id, method, r)
    /\ UNCHANGED <<now, cfg>>

\* hydrate Auth: a.IsValid(tokenString, m, secretKey) with the token the
\* caller holds and the secret of the configuration id
CallAuthIsValid(id, method) ==
    /\ res.token # NoToken
    /\ res' = [AfterCall("hydrate.IsValid", id, method,
                         [err |-> NoErr, token |-> res.token])
                 EXCEPT !.ok = authIsValid(res.token, method, cfg[id].secretKey, now)]
    /\ UNCHANGED <<now, cfg>>

AuthNext ==
    \/ AuthTick
    \/ \E id \in CfgIds : \E method \in AuthMethods : CallGauthGenerate(id, method)
    \/ \E id \in CfgIds : \E method \in AuthMethods : CallAuthGenerate(id, method)
    \/ \E id \in CfgIds : \E method \in AuthMethods : CallGauthRefresh(id, method)
    \/ \E id \in CfgIds : \E method \in AuthMethods : CallAuthRefresh(id, method)
    \/ \E id \in CfgIds : \E method \in AuthMethods : CallAuthIsValid(id, method)

AuthSpec == AuthInit /\ [][AuthNext]_vars

---------------------------------------------------------------------------
(* Package dauth: an Auth of two secrets and two durations.  The caller     *)
(* passes the claims to GenerateToken and holds the token strings           *)

ErrUnknownTokenType == "unknown token type"

tokenTypeAccess == "access"
tokenTypeRefresh == "refresh"

\* the token types a caller may pass: the two constants and another string
TokenTypes == {tokenTypeAccess, tokenTypeRefresh, "other"}

\* a.GenerateToken(claims, tokenType) on the Auth a (its two configurations)
dauthGenerateToken(a, claims, tokenType) ==
    IF tokenType \notin {tokenTypeAccess, tokenTypeRefresh}
    THEN [err |-> ErrUnknownTokenType, token |-> NoToken]
    ELSE LET s == SignedString(DauthMethod, claims, a[tokenType].secretKey)
         IN  IF s.err THEN [err |-> JwtError, token |-> NoToken]
             ELSE [err |-> NoErr, token |-> s.token]

\* a.ExtractClaims(tokenString)
dauthExtractClaims(a, tok, clock) ==
    dauthParseToken(tok, a[tokenTypeAccess].secretKey, clock)

\* a.IsValid(tokenString); the Valid field is true when jwt.Parse returned no
\* error
dauthIsValid(a, tok, clock) ==
    dauthParseToken(tok, a[tokenTypeAccess].secretKey, clock).err = NoErr

\* dauth's RefreshToken with the expiry extended by the access duration
dauthRefreshTokenExtends(a, tok, clock) ==
    LET e == dauthExtractClaims(a, tok, clock)
    IN  IF e.err # NoErr THEN [err |-> e.err, token |-> NoToken]
        ELSE dauthGenerateToken(a, updateExpiration(a[tokenTypeAccess], e.claims, clock),
                                tokenTypeAccess)

\* a.RefreshToken(tokenString)
dauthRefreshToken(a, tok, clock) ==
    LET e == dauthExtractClaims(a, tok, clock)
    IN  IF e.err # NoErr THEN [err |-> e.err, token |-> NoToken]
        ELSE dauthGenerateToken(a, e.claims, tokenTypeAccess)

\* the claims a caller passes to GenerateToken
DauthClaims ==
    {EmptyClaims}
    \cup {[k \in {"exp"} |-> I(e)] : e \in 1..MaxTime}
    \cup {[k \in {"exp", "iat", "sub"} |->
              IF k = "exp" THEN I(e) ELSE IF k = "iat" THEN I(2) ELSE S("u1")] :
          e \in 2..MaxTime}

\* NewAuth(WithAccessTokenConfig(secret, duration),
\*         WithRefreshTokenConfig(secret, duration)): the refresh secret is
\* another one than the access secret, or the same
DauthInit ==
    /\ now = 1
    /\ \E rs \in {SecretOf(id) : id \in CfgIds} : \E d \in 1..2 :
          cfg = [id \in CfgIds |->
                    [NilConfig EXCEPT !.built = TRUE,
                                      !.secretKey = IF id = tokenTypeAccess
                                                    THEN SecretOf(id) ELSE rs,
                                      !.signingMethod = DauthMethod,
                                      !.expiration = d]]
    /\ res = [Idle EXCEPT !.op = "NewAuth"]

\* the tokens the caller holds: res.token is the last token returned for
\* tokenTypeAccess and res.refresh the last one returned for tokenTypeRefresh
Held(tokenType) == IF tokenType = tokenTypeAccess THEN res.token ELSE res.refresh

\* res with the tokens the caller holds and nothing else
HoldOnly == [Idle EXCEPT !.token = res.token, !.refresh = res.refresh]

\* a second passes
DauthTick ==
    /\ now < MaxTime
    /\ now' = now + 1
    /\ res' = HoldOnly
    /\ UNCHANGED cfg

\* a.GenerateToken(claims, tokenType); ok records that a token was returned
CallDauthGenerateToken(tokenType, claims) ==
    /\ \E r \in {dauthGenerateToken(cfg, claims, tokenType)} :
          res' = [HoldOnly EXCEPT
                     !.op = "dauth.GenerateToken", !.id = tokenType,
                     !.err = r.err, !.ok = r.token # NoToken,
                     !.token = IF r.err = NoErr /\ tokenType = tokenTypeAccess
                               THEN r.token ELSE res.token,
                     !.refresh = IF r.err = NoErr /\ tokenType = tokenTypeRefresh
                                 THEN r.token ELSE res.refresh]
    /\ UNCHANGED <<now, cfg>>

\* a.ParseToken(tokenString) with the token held for tokenType
CallDauthParseHeld(tokenType) ==
    /\ Held(tokenType) # NoToken
    /\ \E r \in {dauthParseToken(Held(tokenType), cfg[tokenTypeAccess].secretKey, now)} :
          res' = [HoldOnly EXCEPT !.op = "dauth.ParseToken", !.id = tokenType,
                                  !.prev = Held(tokenType),
                                  !.err = r.err, !.claims = r.claims,
                                  !.ok = r.err = NoErr]
    /\ UNCHANGED <<now, cfg>>

\* a.ExtractClaims(tokenString) with the token held for tokenType
CallDauthExtractClaims(tokenType) ==
    /\ Held(tokenType) # NoToken
    /\ \E r \in {dauthExtractClaims(cfg, Held(tokenType), now)} :
          res' = [HoldOnly EXCEPT !.op = "dauth.ExtractClaims", !.id = tokenType,
                                  !.prev = Held(tokenType),
                                  !.err = r.err, !.claims = r.claims,
                                  !.ok = r.err = NoErr]
    /\ UNCHANGED <<now, cfg>>

\* a.IsValid(tokenString) with the token held for tokenType
CallDauthIsValid(tokenType) ==
    /\ Held(tokenType) # NoToken
    /\ res' = [HoldOnly EXCEPT !.op = "dauth.IsValid", !.id = tokenType,
                               !.prev = Held(tokenType),
                               !.ok = dauthIsValid(cfg, Held(tokenType), now)]
    /\ UNCHANGED <<now, cfg>>

\* a.RefreshToken(tokenString) with the token held for tokenType; the caller
\* then holds the token returned as its access token
CallDauthRefreshToken(tokenType) ==
    /\ Held(tokenType) # NoToken
    /\ \E r \in {dauthRefreshToken(cfg, Held(tokenType), now)} :
          res' = [HoldOnly EXCEPT !.op = "dauth.RefreshToken", !.id = tokenType,
                                  !.prev = Held(tokenType),
                                  !.err = r.err, !.ok = r.token # NoToken,
                                  !.token = IF r.err = NoErr THEN r.token
                                                             ELSE res.token]
    /\ UNCHANGED <<now, cfg>>

DauthNext ==
    \/ DauthTick
    \/ \E tokenType \in TokenTypes : \E claims \in DauthClaims :
          CallDauthGenerateToken(tokenType, claims)
    \/ \E tokenType \in CfgIds : CallDauthParseHeld(tokenType)
    \/ \E tokenType \in CfgIds : CallDauthExtractClaims(tokenType)
    \/ \E tokenType \in CfgIds : CallDauthIsValid(tokenType)
    \/ \E tokenType \in CfgIds : CallDauthRefreshToken(tokenType)

DauthSpec == DauthInit /\ [][DauthNext]_vars

---------------------------------------------------------------------------
(* Properties *)

\* the last call regenerated a token: it succeeded on a receiver that already
\* held one
Regenerated ==
    /\ res.op \in {"GenerateToken", "RefreshToken"}
    /\ res.err = NoErr
    /\ res.prev # NoToken

\* the payload of the token the receiver of the last call holds now, and of
\* the one it held before
NewClaims == cfg[res.id].token.claims
OldClaims == res.prev.claims

Num(n) == [t |-> "number", v |-> n]

\* C1: a regeneration (GenerateToken on an issued configuration, or a
\* successful RefreshToken) keeps the set of claim keys and the value of every
\* claim other than exp and iat.
C1_ClaimsPreserved ==
    Regenerated =>
        /\ DOMAIN NewClaims = DOMAIN OldClaims
        /\ \A k \in DOMAIN OldClaims \ {"exp", "iat"} : NewClaims[k] = OldClaims[k]

\* a second regeneration in a row, of a token with iss, aud and exp, that
\* moved exp
C1_Witness ==
    /\ Regenerated
    /\ {"iss", "aud", "exp"} \subseteq DOMAIN OldClaims
    /\ NewClaims["exp"] # OldClaims["exp"]
    /\ res.prevAt # cfg[res.id].configuredAt

\* C2: a regeneration of a token with an exp claim sets exp to the time of the
\* call plus the configuration's duration, and that duration is ExpiresAt minus
\* the time WithStandardClaims was applied (0 when it never was).
C2_ExpRecomputed ==
    LET t == cfg[res.id]
    IN  (Regenerated /\ "exp" \in DOMAIN OldClaims) =>
            /\ NewClaims["exp"] = Num(now + t.expiration)
            /\ t.expiration = IF t.standardClaims.ExpiresAt # 0
                              THEN t.standardClaims.ExpiresAt - t.configuredAt
                              ELSE 0

\* a regeneration later than the configuration, with a duration that is not 0
C2_Witness ==
    /\ Regenerated
    /\ "exp" \in DOMAIN OldClaims
    /\ cfg[res.id].standardClaims.ExpiresAt # 0
    /\ cfg[res.id].configuredAt > 1
    /\ now > cfg[res.id].configuredAt
    /\ cfg[res.id].expiration > 0

\* C3 as stated: every regeneration of a token with an exp claim returns an
\* exp that differs from the one it replaces, and so a different token.
C3_AsStated ==
    (Regenerated /\ "exp" \in DOMAIN OldClaims) =>
        /\ NewClaims["exp"] # OldClaims["exp"]
        /\ res.token # res.prev

\* C3, amended: the token returned differs from the one it replaces exactly
\* when exp or iat changed; and for a configuration with standard claims the
\* new exp differs from the old one exactly when the clock has advanced since
\* the old one was computed.
C3_ExpDiffersWhenClockAdvanced ==
    Regenerated =>
        /\ res.token # res.prev <=>
              \E k \in {"exp", "iat"} \cap DOMAIN OldClaims :
                  NewClaims[k] # OldClaims[k]
        /\ ("exp" \in DOMAIN OldClaims /\ cfg[res.id].standardClaims.ExpiresAt # 0) =>
              (NewClaims["exp"] # OldClaims["exp"] <=> now # res.prevAt)

\* a regeneration one second or more after the previous token's exp was
\* computed: the exp moved and the token is another one
C3_Witness ==
    /\ Regenerated
    /\ "exp" \in DOMAIN OldClaims
    /\ cfg[res.id].standardClaims.ExpiresAt # 0
    /\ now # res.prevAt
    /\ res.token # res.prev

\* C4: a regeneration sets iat to the time of the call when the previous token
\* has an iat claim and adds neither iat nor exp when the previous token has
\* none.
C4_IssuedAtRecomputed ==
    Regenerated =>
        /\ "iat" \in DOMAIN OldClaims => NewClaims["iat"] = Num(now)
        /\ "iat" \notin DOMAIN OldClaims => "iat" \notin DOMAIN NewClaims
        /\ "exp" \notin DOMAIN OldClaims => "exp" \notin DOMAIN NewClaims

\* a regeneration that moved iat
C4_Witness ==
    /\ Regenerated
    /\ "iat" \in DOMAIN OldClaims
    /\ OldClaims["iat"] # Num(now)
    /\ NewClaims["iat"] = Num(now)

\* the claims jwt.Parse reads from the token a configuration holds
StoredClaims(t) == DecodeClaims(t.token.claims)

\* the claim map has a numeric exp
NumericExp(c) == "exp" \in DOMAIN c /\ c["exp"].t = "float64"

\* C5 as stated: RefreshToken with a refresh configuration (another one than
\* the receiver) that is not nil and not valid returns ErrTokenInvalid and no
\* token.
C5_AsStated ==
    (res.op = "RefreshToken" /\ res.arg # res.id /\ cfg[res.arg].built /\ ~res.ok) =>
        /\ res.err = ErrTokenInvalid
        /\ res.token = NoToken

\* C5, amended: RefreshToken with a refresh configuration that is not nil and
\* not valid returns no token and leaves the stored access token as it was; the
\* error is ErrTokenInvalid when the access configuration has issued a token
\* and ErrTokenNotGenerated when it has not.
C5_InvalidRefreshRejected ==
    (res.op = "RefreshToken" /\ cfg[res.arg].built /\ ~res.ok) =>
        /\ res.err = IF res.prev = NoToken THEN ErrTokenNotGenerated
                                           ELSE ErrTokenInvalid
        /\ res.token = NoToken
        /\ cfg[res.id].token = res.prev

\* an expired refresh token rejected while the access token is valid
C5_Witness ==
    /\ res.op = "RefreshToken"
    /\ res.arg # res.id
    /\ cfg[res.arg].issued
    /\ NumericExp(StoredClaims(cfg[res.arg]))
    /\ StoredClaims(cfg[res.arg])["exp"].v < now
    /\ IsValid(cfg[res.id], now).ok
    /\ res.err = ErrTokenInvalid

\* C6: IsValid returns true exactly when the configuration holds a token, the
\* token's signature verifies under the configuration's secret, its claims
\* pass the parser's validation, and its exp, if it has one, has not passed.
C6_IsValidExactly ==
    res.op = "IsValid" =>
        LET t == cfg[res.id]
            c == StoredClaims(t)
        IN  res.ok <=>
                /\ t.issued
                /\ SignatureValid(t.token, t.secretKey)
                /\ ClaimsValid(c, now)
                /\ "exp" \in DOMAIN c => (NumericExp(c) /\ c["exp"].v >= now)

\* IsValid returned true for a token whose exp lies ahead
C6_Witness ==
    /\ res.op = "IsValid"
    /\ res.ok
    /\ NumericExp(StoredClaims(cfg[res.id]))
    /\ StoredClaims(cfg[res.id])["exp"].v > now

\* C7 as stated: IsValid returns false when the stored token's exp is at or
\* before the current time.
C7_AsStated ==
    (/\ res.op = "IsValid"
     /\ cfg[res.id].issued
     /\ NumericExp(StoredClaims(cfg[res.id]))
     /\ StoredClaims(cfg[res.id])["exp"].v <= now) => ~res.ok

\* C7, amended: IsValid returns false when the stored token's exp is strictly
\* before the current time.
C7_ExpiredIsInvalid ==
    (/\ res.op = "IsValid"
     /\ cfg[res.id].issued
     /\ NumericExp(StoredClaims(cfg[res.id]))
     /\ StoredClaims(cfg[res.id])["exp"].v < now) => ~res.ok

\* IsValid returned false for a token that expired a second or more ago
C7_Witness ==
    /\ res.op = "IsValid"
    /\ cfg[res.id].issued
    /\ NumericExp(StoredClaims(cfg[res.id]))
    /\ StoredClaims(cfg[res.id])["exp"].v < now
    /\ ~res.ok

\* the claim map expires at this very second and nothing else is wrong with it
ExpiresNow(c) ==
    /\ "exp" \in DOMAIN c
    /\ c["exp"] = F(now)
    /\ VerifyIssuedAt(c, now)
    /\ VerifyNotBefore(c, now)

\* C8: a stored token whose exp equals the current time is valid for IsValid,
\* is parsed by ParseToken and ExtractClaims and is regenerated; and IsValid
\* reports a token as expired only when its exp is strictly before the current
\* time.
C8_TieIsValid ==
    LET t == cfg[res.id]
        c == StoredClaims(t)
        wasTie == res.prev # NoToken /\ ExpiresNow(DecodeClaims(res.prev.claims))
    IN  /\ (res.op = "IsValid" /\ t.issued /\ ExpiresNow(c)) => res.ok
        /\ (res.op \in {"ParseToken", "ExtractClaims"} /\ t.issued /\ ExpiresNow(c)) =>
                (res.err = NoErr /\ res.claims = c)
        /\ (res.op = "GenerateToken" /\ wasTie) => res.err = NoErr
        /\ (res.op = "RefreshToken" /\ wasTie /\ cfg[res.arg].built /\ res.ok) =>
                res.err = NoErr
        /\ (/\ res.op = "IsValid" /\ t.issued /\ ~res.ok /\ NumericExp(c)
            /\ VerifyIssuedAt(c, now) /\ VerifyNotBefore(c, now)) =>
                c["exp"].v < now

\* IsValid returned true at the second the token expires
C8_Witness ==
    /\ res.op = "IsValid"
    /\ cfg[res.id].issued
    /\ ExpiresNow(StoredClaims(cfg[res.id]))
    /\ res.ok

\* C9: IsValid never aborts, and it returns false for a configuration that has
\* issued no token, for a token that fails parsing, for an expired token and
\* for a token whose exp is not a number.
C9_IsValidNeverAborts ==
    res.op = "IsValid" =>
        LET t == cfg[res.id]
            c == StoredClaims(t)
        IN  /\ res.err = NoErr
            /\ (\/ ~t.issued
                \/ ParseToken(t, now).err # NoErr
                \/ "exp" \in DOMAIN c /\ ~NumericExp(c)
                \/ NumericExp(c) /\ c["exp"].v < now) => ~res.ok

\* IsValid returned false for a token whose exp is a string
C9_Witness ==
    /\ res.op = "IsValid"
    /\ cfg[res.id].issued
    /\ "exp" \in DOMAIN StoredClaims(cfg[res.id])
    /\ StoredClaims(cfg[res.id])["exp"].t = "string"
    /\ res.err = NoErr
    /\ ~res.ok

\* the configuration was built with standard claims whose exp was in the past
BuiltExpired(t) == t.standardClaims.ExpiresAt # 0 /\ t.expiration < 0

\* C10 as stated: the first GenerateToken of a configuration built with exp in
\* the past succeeds and stores a token.
C10_AsStated ==
    (/\ res.op = "GenerateToken"
     /\ res.prev = NoToken
     /\ BuiltExpired(cfg[res.id])) =>
        (res.err = NoErr /\ cfg[res.id].issued)

\* C10, amended: the first GenerateToken of a configuration built with exp in
\* the past makes no expiry check: it fails only with ErrSigningToken, when the
\* signing method cannot sign with the secret, and otherwise succeeds and
\* stores the token it returns; from then on IsValid returns false and
\* ExtractClaims fails with ErrTokenInvalid.
C10_ExpiredAtIssuance ==
    LET t == cfg[res.id]
    IN  /\ (res.op = "GenerateToken" /\ res.prev = NoToken /\ BuiltExpired(t)) =>
              IF t.signingMethod \in HMACMethods
              THEN res.err = NoErr /\ t.issued /\ t.token = res.token
                   /\ res.token # NoToken
              ELSE res.err = ErrSigningToken /\ ~t.issued
        /\ (res.op = "IsValid" /\ t.issued /\ BuiltExpired(t)) => ~res.ok
        /\ (res.op = "ExtractClaims" /\ t.issued /\ BuiltExpired(t)) =>
              res.err = ErrTokenInvalid

\* ExtractClaims failed on the token a configuration built with exp in the
\* past had issued
C10_Witness ==
    /\ res.op = "ExtractClaims"
    /\ cfg[res.id].issued
    /\ BuiltExpired(cfg[res.id])
    /\ res.err = ErrTokenInvalid

\* C11: the operations that need an issued token fail with
\* ErrTokenNotGenerated without one: ExtractClaims on a configuration that
\* holds no token, and RefreshToken when the receiver holds no token or the
\* refresh configuration is nil, whatever IsValid says of the refresh
\* configuration; in each case nothing is returned and nothing is stored.
C11_NotGenerated ==
    /\ (res.op = "ExtractClaims" /\ ~cfg[res.id].issued) =>
          (res.err = ErrTokenNotGenerated /\ res.claims = EmptyClaims)
    /\ (res.op = "RefreshToken" /\ (res.prev = NoToken \/ ~cfg[res.arg].built)) =>
          /\ res.err = ErrTokenNotGenerated
          /\ res.token = NoToken
          /\ cfg[res.id].token = res.prev

\* RefreshToken on a receiver without a token, with a refresh configuration
\* that is built and not valid: the issuance check came first
C11_Witness ==
    /\ res.op = "RefreshToken"
    /\ res.prev = NoToken
    /\ res.arg # res.id
    /\ cfg[res.arg].built
    /\ ~res.ok
    /\ res.err = ErrTokenNotGenerated

\* C12: a GenerateTokenPair call with a nil access or a nil refresh
\* configuration returns ErrTokenConfigNil and no token, and leaves every
\* configuration as it was: the one that is not nil gets no token issued or
\* regenerated.
C12_NilFailsFast ==
    [][(/\ res'.op = "GenerateTokenPair"
        /\ (~cfg[res'.id].built \/ ~cfg[res'.arg].built)) =>
           /\ res'.err = ErrTokenConfigNil
           /\ res'.token = NoToken
           /\ res'.refresh = NoToken
           /\ cfg' = cfg]_vars

\* GenerateTokenPair was refused for a nil refresh configuration while the
\* access configuration held a token it could have regenerated
C12_Witness ==
    /\ res.op = "GenerateTokenPair"
    /\ res.err = ErrTokenConfigNil
    /\ cfg[res.id].issued
    /\ ~cfg[res.arg].built

\* C13: GenerateTokenPair returns either two tokens and no error, or no token
\* and an error: when the generation fails for the access or for the refresh
\* configuration both returned tokens are nil, and two tokens are returned
\* only when both generations succeeded, each configuration then holding the
\* token returned for it.
C13_NoPartialSuccess ==
    res.op = "GenerateTokenPair" =>
        /\ res.err # NoErr => (res.token = NoToken /\ res.refresh = NoToken)
        /\ (res.token # NoToken \/ res.refresh # NoToken) =>
              /\ res.err = NoErr
              /\ res.token # NoToken
              /\ res.refresh # NoToken
              /\ cfg[res.arg].issued /\ cfg[res.arg].token = res.refresh
              /\ cfg[res.id].issued
              /\ res.id # res.arg => cfg[res.id].token = res.token

\* the access token was generated and stored, the refresh generation then
\* failed, and no token was returned
C13_Witness ==
    /\ res.op = "GenerateTokenPair"
    /\ res.err \notin {NoErr, ErrTokenConfigNil}
    /\ res.prev = NoToken
    /\ cfg[res.id].issued
    /\ res.token = NoToken
    /\ res.refresh = NoToken

\* the arguments of the last copy call
StdArg == cfg["access"].standardClaims
CustomArg == cfg["access"].customClaims

\* the standard claim field of key k is not the zero value of its type
NonDefault(sc, k) ==
    CASE k = "exp" -> sc.ExpiresAt # 0
      [] k = "iat" -> sc.IssuedAt # 0
      [] k = "nbf" -> sc.NotBefore # 0
      [] k = "iss" -> sc.Issuer # ""
      [] k = "aud" -> sc.Audience # ""
      [] k = "sub" -> sc.Subject # ""
      [] k = "jti" -> sc.Id # ""

\* the value the map holds for the standard claim field of key k
FieldValue(sc, k) ==
    CASE k = "exp" -> I(sc.ExpiresAt)
      [] k = "iat" -> I(sc.IssuedAt)
      [] k = "nbf" -> I(sc.NotBefore)
      [] k = "iss" -> S(sc.Issuer)
      [] k = "aud" -> S(sc.Audience)
      [] k = "sub" -> S(sc.Subject)
      [] k = "jti" -> S(sc.Id)

\* C14: in the map copyClaims composes, every reserved key whose standard
\* field is not the zero value holds the standard value, whatever the custom
\* claims hold under that key, and every custom claim under another key is
\* there unchanged; the map holds no other key.
C14_StandardPrecedence ==
    res.op = "copyClaims" =>
        /\ \A k \in StdKeys :
              NonDefault(StdArg, k) =>
                  (k \in DOMAIN res.claims /\ res.claims[k] = FieldValue(StdArg, k))
        /\ \A k \in DOMAIN CustomArg :
              (k \notin StdKeys \/ ~NonDefault(StdArg, k)) =>
                  (k \in DOMAIN res.claims /\ res.claims[k] = CustomArg[k])
        /\ DOMAIN res.claims \subseteq StdKeys \cup DOMAIN CustomArg

\* standard exp over a custom exp of 999, next to a custom claim of the
\* caller's own
C14_Witness ==
    /\ res.op = "copyClaims"
    /\ StdArg.ExpiresAt # 0
    /\ {"exp", "role"} \subseteq DOMAIN CustomArg
    /\ CustomArg["exp"] = I(999)
    /\ res.claims["exp"] = I(StdArg.ExpiresAt)
    /\ res.claims["role"] = CustomArg["role"]

\* C15: copyStandardClaims writes a reserved key exactly when the field is
\* not the zero value (a non-zero int64, a non-empty string), and then with
\* the field's value; for a field that is the zero value the key is in the map
\* afterwards exactly when it was there before, with the value it had.
C15_WrittenIffNonDefault ==
    res.op \in {"copyStandardClaims", "copyClaims"} =>
        \A k \in StdKeys :
            IF NonDefault(StdArg, k)
            THEN k \in DOMAIN res.claims /\ res.claims[k] = FieldValue(StdArg, k)
            ELSE /\ k \in DOMAIN res.claims <=> k \in DOMAIN CustomArg
                 /\ k \in DOMAIN CustomArg => res.claims[k] = CustomArg[k]

\* a zero ExpiresAt left the custom exp in place and added no jti, while the
\* non-empty Issuer replaced the custom iss
C15_Witness ==
    /\ res.op = "copyStandardClaims"
    /\ StdArg.ExpiresAt = 0 /\ StdArg.Id = "" /\ StdArg.Issuer = "test"
    /\ {"exp", "iss"} \subseteq DOMAIN CustomArg
    /\ res.claims["exp"] = CustomArg["exp"]
    /\ res.claims["iss"] = S("test")
    /\ "jti" \notin DOMAIN res.claims

\* the option fails when it is applied
Fails(o) ==
    CASE o.kind = "SecretKey" -> o.key = NilBytes
      [] o.kind = "WithSigningMethod" -> o.method = NoMethod
      [] o.kind = "WithStandardClaims" -> o.std.ExpiresAt = 0
      [] o.kind = "WithCustomClaims" -> DOMAIN o.custom = {}

SomeOptionFails(options) == \E i \in 1..Len(options) : Fails(options[i])

\* no option of the list sets a secret: there is no SecretKey option, or none
\* with a key the secret wrapper accepts
NoUsableSecret(options) ==
    \A i \in 1..Len(options) :
        options[i].kind = "SecretKey" => options[i].key = NilBytes

\* the options other than SecretKey all succeed
OthersSucceed(options) ==
    \A i \in 1..Len(options) :
        options[i].kind # "SecretKey" => ~Fails(options[i])

C17_FailingOptionAborts ==
    res.op = "NewToken" =>
        /\ SomeOptionFails(res.options) =>
              (res.err = ErrInvalidTokenConfig /\ ~cfg[res.id].built)
        /\ cfg[res.id].built =>
              /\ res.err = NoErr
              /\ \A i \in 1..Len(res.options) :
                    res.options[i].kind = "WithStandardClaims" =>
                        /\ res.options[i].std.ExpiresAt # 0
                        /\ cfg[res.id].standardClaims = res.options[i].std
              /\ cfg[res.id].standardClaims # ZeroStandardClaims =>
                    cfg[res.id].standardClaims.ExpiresAt # 0

\* the failing option, standard claims with an issuer and no expiration, came
\* second of three
C17_Witness ==
    /\ res.op = "NewToken"
    /\ Len(res.options) = 3
    /\ res.options[2].kind = "WithStandardClaims"
    /\ res.options[2].std.ExpiresAt = 0
    /\ res.options[2].std.Issuer # ""
    /\ ~Fails(res.options[1]) /\ ~Fails(res.options[3])
    /\ res.err = ErrInvalidTokenConfig
    /\ ~cfg[res.id].built

\* exp is the only standard claim of the configuration
OnlyExp(t) ==
    /\ t.standardClaims.ExpiresAt # 0
    /\ t.standardClaims = [ZeroStandardClaims EXCEPT
                               !.ExpiresAt = t.standardClaims.ExpiresAt]

\* the custom claims set no iat and no nbf that is later than clock
CustomTimely(t, clock) ==
    \A k \in {"iat", "nbf"} \cap DOMAIN t.customClaims :
        t.customClaims[k].t = "int64" => t.customClaims[k].v <= clock

\* the last call was the first GenerateToken of its receiver
FirstGenerate == res.op = "GenerateToken" /\ res.prev = NoToken

\* ParseToken and IsValid, called on t at once, both accept the token
ParsesAndIsValid(t) ==
    /\ t.issued
    /\ ParseToken(t, now).err = NoErr
    /\ IsValid(t, now) = [err |-> NoErr, ok |-> TRUE]

\* C18 as stated: for a configuration with a non-empty secret whose only
\* standard claim is exp, the first GenerateToken succeeds, and ParseToken and
\* IsValid called right after it accept the token (read for the signing
\* methods that take the secret as their key).
C18_AsStated ==
    (/\ FirstGenerate
     /\ OnlyExp(cfg[res.id])
     /\ cfg[res.id].secretKey # NilBytes
     /\ cfg[res.id].signingMethod \in HMACMethods) =>
        (res.err = NoErr /\ ParsesAndIsValid(cfg[res.id]))

\* C18, amended: the same, for a configuration that signs with an HMAC method,
\* whose exp is not before the time of the calls and whose custom claims set
\* no iat or nbf in the future.
C18_OnlyExpAccepted ==
    LET t == cfg[res.id]
    IN  (/\ FirstGenerate
         /\ OnlyExp(t)
         /\ t.secretKey # NilBytes
         /\ t.signingMethod \in HMACMethods
         /\ t.standardClaims.ExpiresAt >= now
         /\ CustomTimely(t, now)) =>
            (res.err = NoErr /\ t.token = res.token /\ ParsesAndIsValid(t))

\* the first token of a configuration with exp only, generated in the very
\* second exp names, over a custom exp that is no number
C18_Witness ==
    /\ FirstGenerate
    /\ OnlyExp(cfg[res.id])
    /\ cfg[res.id].standardClaims.ExpiresAt = now
    /\ "exp" \in DOMAIN cfg[res.id].customClaims
    /\ res.err = NoErr
    /\ ParsesAndIsValid(cfg[res.id])

\* the claim map a configuration composes for its first token: the standard
\* fields that are not the zero value, and the custom claims under the other
\* keys
Composed(t) ==
    LET std == {k \in StdKeys : NonDefault(t.standardClaims, k)}
    IN  [k \in std \cup DOMAIN t.customClaims |->
            IF k \in std THEN FieldValue(t.standardClaims, k)
            ELSE t.customClaims[k]]

\* the map as a caller reads it back: the integers have become float64
Normalized(m) == [k \in DOMAIN m |-> IF m[k].t = "int64" THEN F(m[k].v) ELSE m[k]]

\* the time claims of the map are acceptable at clock: exp, if there, is a
\* number that is 0 or not before clock, and a numeric iat or nbf is not after
\* clock
TimeValid(m, clock) ==
    /\ "exp" \in DOMAIN m =>
          (m["exp"].t = "int64" /\ (m["exp"].v = 0 \/ m["exp"].v >= clock))
    /\ \A k \in {"iat", "nbf"} \cap DOMAIN m :
          m[k].t = "int64" => m[k].v <= clock

\* C19 as stated: ExtractClaims on the first token of a configuration, whatever
\* its standard and custom claims, succeeds and returns the composed map, the
\* integers normalized.
C19_AsStated ==
    (FirstGenerate /\ res.err = NoErr) =>
        LET e == ExtractClaims(cfg[res.id], now)
        IN  e.err = NoErr /\ e.claims = Normalized(Composed(cfg[res.id]))

\* C19, amended: ExtractClaims on the first token of a configuration returns
\* the composed map, with the same keys and the integers normalized, when the
\* time claims of that map are acceptable at the time of the call; otherwise it
\* fails with ErrTokenInvalid and returns no claims.
C19_RoundTrip ==
    (FirstGenerate /\ res.err = NoErr) =>
        LET t == cfg[res.id]
            e == ExtractClaims(t, now)
        IN  IF TimeValid(Composed(t), now)
            THEN e.err = NoErr /\ e.claims = Normalized(Composed(t))
            ELSE e.err = ErrTokenInvalid /\ e.claims = EmptyClaims

\* standard and custom claims together came back, the integers as float64
C19_Witness ==
    /\ FirstGenerate /\ res.err = NoErr
    /\ cfg[res.id].standardClaims.Issuer = "test"
    /\ {"role", "level"} \subseteq DOMAIN cfg[res.id].customClaims
    /\ LET e == ExtractClaims(cfg[res.id], now)
       IN  /\ e.err = NoErr
           /\ e.claims["level"] = F(7)
           /\ e.claims["role"] = S("admin")
           /\ e.claims["iss"] = S("test")
           /\ e.claims["exp"] = F(cfg[res.id].standardClaims.ExpiresAt)

\* the receiver of the last call as it was when GenerateToken or RefreshToken
\* was called on it: it held the token prev
Before == [cfg[res.id] EXCEPT !.token = res.prev]

\* jwt.Parse has a cause to reject the stored token of t at clock: a payload
\* that is expired, not yet valid or issued in the future, or a signature that
\* does not verify
Rejected(t, clock) ==
    \/ ~VerifyExpiresAt(StoredClaims(t), clock)
    \/ ~VerifyNotBefore(StoredClaims(t), clock)
    \/ ~VerifyIssuedAt(StoredClaims(t), clock)
    \/ ~SignatureValid(t.token, t.secretKey)

\* C20: ParseToken on a configuration that holds a token fails exactly when
\* jwt.Parse has a cause to reject the token, and whatever the cause (expired
\* exp, future nbf, future iat, signature) the error is ErrTokenInvalid and no
\* claims are returned; ExtractClaims returns that error, and so do
\* GenerateToken on a configuration that holds a token (regeneration) and
\* RefreshToken with a valid refresh configuration, which then leave the
\* stored token as it was.
C20_SingleParseError ==
    LET t == cfg[res.id]
    IN  /\ (res.op \in {"ParseToken", "ExtractClaims"} /\ t.issued) =>
              IF Rejected(t, now)
              THEN res.err = ErrTokenInvalid /\ res.claims = EmptyClaims
              ELSE res.err = NoErr
        /\ (res.op = "GenerateToken" /\ res.prev # NoToken /\ Rejected(Before, now)) =>
              (res.err = ErrTokenInvalid /\ res.token = NoToken /\ t.token = res.prev)
        /\ (/\ res.op = "RefreshToken"
            /\ res.prev # NoToken
            /\ cfg[res.arg].built
            /\ res.ok
            /\ Rejected(Before, now)) =>
              (res.err = ErrTokenInvalid /\ res.token = NoToken /\ t.token = res.prev)

\* RefreshToken with a valid refresh configuration returned ErrTokenInvalid
\* for an access token that had expired by then
C20_Witness ==
    /\ res.op = "RefreshToken"
    /\ res.prev # NoToken
    /\ res.ok
    /\ ~VerifyExpiresAt(StoredClaims(Before), now)
    /\ VerifyNotBefore(StoredClaims(Before), now)
    /\ res.err = ErrTokenInvalid

\* C21 as stated: no operation aborts, every failure is an error value; in
\* particular ParseToken on a configuration that NewToken built and that has
\* issued no token returns an error.
C21_AsStated ==
    /\ res.err # Panic
    /\ (res.op = "ParseToken" /\ ~cfg[res.id].issued) => res.err # NoErr

\* C22 as stated: a token whose method is not the one the verifier expects
\* (the signing method passed to VerifyAccessToken; for package dauth the
\* method it signs with) is rejected, also when its signature verifies under
\* its own method with the verifier's secret.
C22_AsStated ==
    /\ (res.op = "VerifyAccessToken" /\ res.prev.alg # res.arg) => res.err # NoErr
    /\ (res.op = "DauthParseToken" /\ res.prev.alg # DauthMethod) => res.err # NoErr

\* the payload a regeneration at clock makes of the payload old for the
\* configuration t: exp and iat, where present, are recomputed, the rest is kept
Rotated(t, old, clock) ==
    [k \in DOMAIN old |->
        IF k = "exp" THEN Num(clock + t.expiration)
        ELSE IF k = "iat" THEN Num(clock)
        ELSE old[k]]

\* C23: the life of a configuration.  It holds no token until a GenerateToken
\* on it succeeds (alone or within GenerateTokenPair); once it holds one it
\* always holds one; its first token carries the claims composed from its
\* claim sets (unless GenerateTokenPair was given it twice and regenerated it
\* at once); a successful GenerateToken or RefreshToken on a
\* configuration that holds a token makes the new payload from the stored one
\* and not from the configuration's claim sets; and after every successful
\* GenerateToken or RefreshToken the stored token is the token returned.
C23_Lifecycle ==
    [][/\ \A id \in CfgIds :
             /\ ~cfg[id].issued => cfg[id].token = NoToken
             /\ cfg[id].issued => (cfg'[id].issued /\ cfg'[id].token # NoToken)
             /\ (~cfg[id].issued /\ cfg'[id].issued) =>
                    /\ res'.op \in {"GenerateToken", "GenerateTokenPair"}
                    /\ id \in {res'.id, res'.arg}
                    /\ (res'.op = "GenerateToken" \/ res'.id # res'.arg) =>
                           cfg'[id].token.claims =
                               EncodeClaims(copyClaims(EmptyClaims,
                                                       cfg[id].standardClaims,
                                                       cfg[id].customClaims))
       /\ (res'.op \in {"GenerateToken", "RefreshToken"} /\ res'.err = NoErr) =>
             /\ cfg'[res'.id].issued
             /\ cfg'[res'.id].token = res'.token
             /\ cfg[res'.id].issued =>
                    res'.token.claims =
                        Rotated(cfg[res'.id], cfg[res'.id].token.claims, now)]_vars

\* a GenerateToken on a configuration that held a token returned and stored
\* another one, made from the stored payload
C23_Witness ==
    /\ res.op = "GenerateToken"
    /\ Regenerated
    /\ res.token # res.prev
    /\ cfg[res.id].token = res.token
    /\ res.token.claims = Rotated(cfg[res.id], res.prev.claims, now)
    /\ res.token.claims #
           EncodeClaims(copyClaims(EmptyClaims, cfg[res.id].standardClaims,
                                   cfg[res.id].customClaims))

\* the last call was a GenerateTokenPair on two configurations that returned
\* two tokens
PairReturned ==
    /\ res.op = "GenerateTokenPair"
    /\ res.id # res.arg
    /\ res.err = NoErr

\* C24 as stated: when the derived durations of the two configurations
\* differ, the claim maps extracted from the two tokens GenerateTokenPair
\* returned differ in some claim.
C24_AsStated ==
    (/\ PairReturned
     /\ cfg[res.id].expiration # cfg[res.arg].expiration
     /\ ExtractClaims(cfg[res.id], now).err = NoErr
     /\ ExtractClaims(cfg[res.arg], now).err = NoErr) =>
        ExtractClaims(cfg[res.id], now).claims # ExtractClaims(cfg[res.arg], now).claims

\* C24, amended: when neither configuration held a token before the call and
\* both declare an expiration, and the two declared expirations differ, the
\* two tokens carry each its own declared expiration, so their claim maps
\* differ in exp.
C24_FirstPairDiffers ==
    [][(/\ res'.op = "GenerateTokenPair"
        /\ res'.id # res'.arg
        /\ res'.err = NoErr
        /\ ~cfg[res'.id].issued
        /\ ~cfg[res'.arg].issued
        /\ cfg[res'.id].standardClaims.ExpiresAt # 0
        /\ cfg[res'.arg].standardClaims.ExpiresAt # 0
        /\ cfg[res'.id].standardClaims.ExpiresAt #
               cfg[res'.arg].standardClaims.ExpiresAt) =>
           /\ "exp" \in DOMAIN res'.token.claims
           /\ "exp" \in DOMAIN res'.refresh.claims
           /\ res'.token.claims["exp"] = Num(cfg[res'.id].standardClaims.ExpiresAt)
           /\ res'.refresh.claims["exp"] = Num(cfg[res'.arg].standardClaims.ExpiresAt)
           /\ res'.token.claims # res'.refresh.claims]_vars

\* the first tokens of two configurations with different expirations, returned
\* by one GenerateTokenPair: both are extracted, with different exp
C24_Witness ==
    /\ PairReturned
    /\ res.prev = NoToken
    /\ cfg[res.id].token.claims =
           EncodeClaims(Composed(cfg[res.id]))
    /\ cfg[res.arg].token.claims =
           EncodeClaims(Composed(cfg[res.arg]))
    /\ cfg[res.id].standardClaims.ExpiresAt # 0
    /\ cfg[res.arg].standardClaims.ExpiresAt # 0
    /\ cfg[res.id].standardClaims.ExpiresAt # cfg[res.arg].standardClaims.ExpiresAt
    /\ ExtractClaims(cfg[res.id], now).err = NoErr
    /\ ExtractClaims(cfg[res.arg], now).err = NoErr
    /\ ExtractClaims(cfg[res.id], now).claims["exp"] #
           ExtractClaims(cfg[res.arg], now).claims["exp"]

\* C25: when GenerateToken (first issuance or regeneration) or RefreshToken
\* returns an error, no token is returned and the configuration holds exactly
\* the token, or the absence of one, that it held before the call.
C25_UnchangedOnError ==
    (res.op \in {"GenerateToken", "RefreshToken"} /\ res.err # NoErr) =>
        /\ res.token = NoToken
        /\ cfg[res.id].token = res.prev
        /\ cfg[res.id].issued <=> res.prev # NoToken
        /\ cfg[res.id].stampedAt = res.prevAt

\* a first GenerateToken failed at signing and left the configuration without
\* a token
C25_Witness ==
    /\ res.op = "GenerateToken"
    /\ res.err = ErrSigningToken
    /\ res.prev = NoToken
    /\ ~cfg[res.id].issued
    /\ cfg[res.id].token = NoToken

\* the fields of a configuration that construction sets: secret, signing
\* method, standard claims, custom claims and derived duration
Settings(t) ==
    <<t.built, t.secretKey, t.signingMethod, t.standardClaims, t.customClaims,
      t.expiration, t.configuredAt>>

\* C26: no operation changes the secret, signing method, standard claims,
\* custom claims or derived duration of a configuration that was built;
\* ParseToken, ExtractClaims and IsValid leave every configuration as it was;
\* GenerateToken and RefreshToken leave every configuration other than their
\* receiver as it was, the refresh configuration included, and in the receiver
\* they change the stored token only.
C26_LocalEffects ==
    [][\A id \in CfgIds :
          /\ cfg[id].built => Settings(cfg'[id]) = Settings(cfg[id])
          /\ res'.op \in {"ParseToken", "ExtractClaims", "IsValid"} =>
                cfg'[id] = cfg[id]
          /\ (res'.op \in {"GenerateToken", "RefreshToken"} /\ id # res'.id) =>
                cfg'[id] = cfg[id]]_vars

\* RefreshToken replaced the token of the receiver and left the refresh
\* configuration, which holds a token of its own, as it was
C26_Witness ==
    /\ res.op = "RefreshToken"
    /\ res.arg # res.id
    /\ res.err = NoErr
    /\ cfg[res.id].token # res.prev
    /\ cfg[res.arg].issued
    /\ cfg[res.arg].stampedAt = cfg[res.arg].configuredAt
    /\ cfg[res.id].expiration > 0

\* t holds a token whose numeric exp is strictly before clock
ExpiredToken(t, clock) ==
    /\ t.issued
    /\ NumericExp(StoredClaims(t))
    /\ ~VerifyExpiresAt(StoredClaims(t), clock)

\* C27 as stated: RefreshToken on an access configuration whose stored token
\* has expired fails with ErrTokenInvalid.
C27_AsStated ==
    (res.op = "RefreshToken" /\ res.prev # NoToken /\ ExpiredToken(Before, now)) =>
        res.err = ErrTokenInvalid

\* C27, amended: a configuration whose stored token has expired keeps that
\* token through every step and stays expired; GenerateToken on it fails with
\* ErrTokenInvalid; RefreshToken with it as the access configuration fails
\* with ErrTokenInvalid when the refresh configuration is not nil, be it valid
\* or not, and with ErrTokenNotGenerated when it is nil; GenerateTokenPair with
\* it as the access configuration and a refresh configuration that is not nil
\* fails with ErrTokenInvalid.
C27_ExpiredAbsorbing ==
    [][\A id \in CfgIds :
          ExpiredToken(cfg[id], now) =>
              /\ cfg'[id].token = cfg[id].token
              /\ ExpiredToken(cfg'[id], now')
              /\ (res'.op = "GenerateToken" /\ res'.id = id) =>
                    (res'.err = ErrTokenInvalid /\ res'.token = NoToken)
              /\ (res'.op = "RefreshToken" /\ res'.id = id) =>
                    /\ res'.err = IF cfg[res'.arg].built THEN ErrTokenInvalid
                                                        ELSE ErrTokenNotGenerated
                    /\ res'.token = NoToken
              /\ (res'.op = "GenerateTokenPair" /\ res'.id = id /\ cfg[res'.arg].built) =>
                    (res'.err = ErrTokenInvalid /\ res'.token = NoToken)]_vars

\* GenerateToken was refused on a configuration whose token, a regenerated
\* one, had expired
C27_Witness ==
    /\ res.op = "GenerateToken"
    /\ res.err = ErrTokenInvalid
    /\ ExpiredToken(cfg[res.id], now)
    /\ cfg[res.id].token = res.prev
    /\ cfg[res.id].stampedAt # cfg[res.id].configuredAt

\* C28: the token a successful regeneration stored (GenerateToken on a
\* configuration that held a token, or RefreshToken) is valid at the time it
\* was produced: IsValid called at that time returns true.
C28_RegeneratedIsValid ==
    Regenerated => IsValid(cfg[res.id], now) = [err |-> NoErr, ok |-> TRUE]

\* a regeneration at a later time than the first issuance stored a token with
\* a new exp, and IsValid accepts it
C28_Witness ==
    /\ Regenerated
    /\ NumericExp(StoredClaims(cfg[res.id]))
    /\ StoredClaims(cfg[res.id])["exp"] = F(now + cfg[res.id].expiration)
    /\ DecodeClaims(OldClaims)["exp"] # StoredClaims(cfg[res.id])["exp"]
    /\ IsValid(cfg[res.id], now).ok

\* C29 as stated: a successful regeneration does not decrease the exp claim of
\* the stored token, whether the exp came from WithStandardClaims or from the
\* custom claims only.
C29_AsStated ==
    (/\ Regenerated
     /\ NumericExp(DecodeClaims(OldClaims))
     /\ NumericExp(StoredClaims(cfg[res.id]))) =>
        StoredClaims(cfg[res.id])["exp"].v >= DecodeClaims(OldClaims)["exp"].v

\* C30 as stated: when GenerateTokenPair returns an error, the access
\* configuration holds the token, or the absence of one, that it held before
\* the call.
C30_AsStated ==
    (res.op = "GenerateTokenPair" /\ res.err # NoErr /\ res.id # res.arg) =>
        /\ cfg[res.id].token = res.prev
        /\ cfg[res.id].issued <=> res.prev # NoToken

\* the two calls have run to their end, or a fault has ended the program
RaceOver ==
    \/ \E g \in Goroutines : res.calls[g].pc = "abort"
    \/ \A g \in Goroutines : res.calls[g].pc = "done"

\* call g returned a token and a nil error
Returned(g) == res.calls[g].pc = "done" /\ res.calls[g].err = NoErr

\* jwt.Parse accepts tok under the secret of the raced configuration
ParsesUnderSecret(tok) == ~jwtParse(tok, cfg[res.id].secretKey, now).err

\* two GenerateToken calls made one after the other at this time would both
\* return a token that parses: the method signs with the secret, and the token
\* held, or else the first token composed, is accepted by jwt.Parse
InitiallySound ==
    /\ cfg[res.id].signingMethod \in HMACMethods
    /\ IF res.prev = NoToken THEN TimeValid(Composed(cfg[res.id]), now)
                             ELSE ParsesUnderSecret(res.prev)

\* C31 as stated: after any interleaving of two GenerateToken calls on one
\* configuration, both calls have returned a token that parses under the
\* configuration's secret, and the stored token is one of the two.
C31_AsStated ==
    (RaceOver /\ InitiallySound) =>
        /\ \A g \in Goroutines : Returned(g) /\ ParsesUnderSecret(res.calls[g].token)
        /\ \E g \in Goroutines : cfg[res.id].token = res.calls[g].token

\* C31, amended: two GenerateToken calls that are not serialized race on the
\* stored token.  A call that reads the token the other call has stored may
\* read it unpublished, and then returns ErrTokenInvalid or ends the program
\* with a fault; no call fails otherwise when serialized calls would succeed.
\* When both calls have run to their end, the stored token is the token
\* returned by the call that stored last, or the token held before when both
\* calls failed.  A token returned by a regenerating call parses under the
\* configuration's secret; one returned by a first issuance parses exactly
\* when the time claims composed are acceptable.
C31_RaceOutcomes ==
    RaceOver =>
        /\ (\A g \in Goroutines : res.calls[g].pc = "done") =>
              IF \E g \in Goroutines : Returned(g)
              THEN /\ res.writer \in Goroutines
                   /\ Returned(res.writer)
                   /\ cfg[res.id].token = res.calls[res.writer].token
              ELSE cfg[res.id].token = res.prev
        /\ \A g \in Goroutines :
              /\ (Returned(g) /\ res.calls[g].path = "regen") =>
                    ParsesUnderSecret(res.calls[g].token)
              /\ (Returned(g) /\ res.calls[g].path = "first") =>
                    (ParsesUnderSecret(res.calls[g].token)
                        <=> TimeValid(Composed(cfg[res.id]), now))
              /\ (InitiallySound /\ res.calls[g].pc \in {"done", "abort"}) =>
                    \/ Returned(g) /\ ParsesUnderSecret(res.calls[g].token)
                    \/ /\ res.calls[g].err \in {ErrTokenInvalid, Panic}
                       /\ res.calls[g].path = "regen"
                       /\ res.writer = Other(g)

\* one call issued the first token, the other read it, regenerated it with
\* another exp and stored its own token last
C31_Witness ==
    /\ res.op = "race"
    /\ res.prev = NoToken
    /\ \A g \in Goroutines : Returned(g)
    /\ res.calls[1].path = "first"
    /\ res.calls[2].path = "regen"
    /\ res.calls[1].token # res.calls[2].token
    /\ res.writer = 2
    /\ cfg[res.id].token = res.calls[2].token

\* C32 as stated: a token generated by an Auth, of package gauth or of package
\* hydrate, from a configuration that was given custom claims carries the
\* custom claims together with the standard claims, the standard claims
\* deciding a key both have.
C32_AsStated ==
    (/\ res.op \in {"gauth.Generate", "hydrate.Generate"}
     /\ res.err = NoErr
     /\ cfg[res.id].customClaims # EmptyClaims) =>
        res.token.claims = EncodeClaims(Composed(cfg[res.id]))

\* C33 as stated: RefreshAccessToken or RefreshRefreshToken of an Auth, given
\* a token that verifies under the secret of its configuration and the signing
\* method passed, returns no error and a newly generated token.
C33_AsStated ==
    (/\ res.op \in {"gauth.Refresh", "hydrate.Refresh"}
     /\ verifyToken(res.prev, res.arg, cfg[res.id].secretKey, now).err = NoErr) =>
        /\ res.err = NoErr
        /\ res.token \in {gauthGenerateToken(cfg[res.id], res.arg).token,
                          authGenerateToken(cfg[res.id], res.arg).token}

\* C34 as stated: IsValid of hydrate's Auth returns true exactly for a token
\* that GenerateAccessToken or GenerateRefreshToken produces with the signing
\* method passed and the secret passed, and that has not expired.
C34_AsStated ==
    res.op = "hydrate.IsValid" =>
        (res.ok <=>
            /\ res.prev = authGenerateToken(cfg[res.id], res.arg).token
            /\ VerifyExpiresAt(DecodeClaims(res.prev.claims), now))

\* a call of dauth that verifies the token presented, and whether it accepted
\* the token
DauthVerifying ==
    res.op \in {"dauth.ParseToken", "dauth.ExtractClaims", "dauth.IsValid",
                "dauth.RefreshToken"}

DauthAccepted == IF res.op = "dauth.IsValid" THEN res.ok ELSE res.err = NoErr

\* C35: ParseToken, ExtractClaims, IsValid and RefreshToken of package dauth
\* verify against the access secret only.  A token generated with
\* tokenTypeRefresh is never accepted by them when the refresh secret is
\* another one than the access secret; and one whose time claims are
\* acceptable at the time of the call is accepted exactly when the two
\* secrets are equal.
C35_KeySeparation ==
    (DauthVerifying /\ res.id = tokenTypeRefresh) =>
        /\ res.prev.key = cfg[tokenTypeRefresh].secretKey
        /\ cfg[tokenTypeRefresh].secretKey # cfg[tokenTypeAccess].secretKey =>
              ~DauthAccepted
        /\ ClaimsValid(DecodeClaims(res.prev.claims), now) =>
              (DauthAccepted <=>
                  cfg[tokenTypeRefresh].secretKey = cfg[tokenTypeAccess].secretKey)

\* IsValid refused an unexpired refresh token of an Auth with two secrets,
\* while the caller holds an access token with the same claims
C35_Witness ==
    /\ res.op = "dauth.IsValid"
    /\ res.id = tokenTypeRefresh
    /\ cfg[tokenTypeRefresh].secretKey # cfg[tokenTypeAccess].secretKey
    /\ "exp" \in DOMAIN res.prev.claims
    /\ ClaimsValid(DecodeClaims(res.prev.claims), now)
    /\ res.token # NoToken
    /\ res.token.claims = res.prev.claims
    /\ dauthIsValid(cfg, res.token, now)
    /\ ~res.ok

=============================================================================
